---------------------------- MODULE Spec2Model ----------------------------
(***************************************************************************)
(* 100BASE-TX capture decoder                                              *)
(* (decode_ethernet100Mbps_avec_synchro_V10_AVEC_ARGUMENT.py).             *)
(*                                                                         *)
(* The model covers the decoding pipeline: the LFSR seed search            *)
(* (trouve_etat_init), the descrambler and framer (descramble), the frame  *)
(* decoder (decode_5b_4b, echange_paquet, binaire_vers_hexa) and the outer *)
(* acquisition loop of the main program.                                   *)
(*                                                                         *)
(* Conventions.  The decoded bitstream (bits_decodes_mlt3) is a string of  *)
(* two characters, read one character at a time through int(bit) (lines    *)
(* 206, 249); the characters '1' and '0' of the source are written with    *)
(* the letters car_un and car_zero, which keeps a character of the         *)
(* bitstream apart from the numbers 1 and 0.  Every string the program     *)
(* makes out of descrambled bits is a sequence over {0, 1}.  Python        *)
(* indices are 0-based, the sequences here are 1-based, so lfsr[8] and     *)
(* lfsr[10] of the source are lfsr[9] and lfsr[11] here.  None is the      *)
(* empty tuple (a register always holds 11 bits).  A hexadecimal digit is  *)
(* its value 0..15.  The letters J, K, T, R that the 4B5B table produces   *)
(* are the numbers lettre_J .. lettre_R (none of them is 0 or 1).          *)
(***************************************************************************)
EXTENDS Integers, Sequences, FiniteSets, TLC

(***************************************************************************)
(* Module-level parameters of the main program (lines 398-401).            *)
(***************************************************************************)
idle == <<1,1,1,1,1, 1,1,1,1,1, 1,1,1,1,1, 1,1,1,1,1>>
marqueur_debut == <<1,1,1,1,1, 1,1,0,0,0, 1,0,0,0,1>>
marqueur_fin == <<0,1,1,0,1, 0,0,1,1,1, 1,1,1,1,1>>
nbr_bits == 11

\* The literal that follows marqueur_debut in the frame start test (line 270).
suite_debut == <<0,1,0,1,1, 0,1,0,1,1, 0,1,0,1,1, 0,1,0,1,1>>
\* The literal '1111111111' put back in front of the buffer (line 267).
dix_uns == <<1,1,1,1,1, 1,1,1,1,1>>

\* Locals of descramble that never change (lines 240, 243, 258, 246).
seuil_perte_synchro == 100
MAX_BITS_SANS_FIN == 30000
taille_tampon == 200
saut_sans_etat == 10
\* trouve_etat_init: the run of '1' looked for (line 183), the prefix handed
\* to it by the main loop (line 415).
longueur_motif_sync == 40
longueur_prefixe == 50
\* The least length of a printed hex_trame (line 435).
longueur_hex_min == 42

lettre_J == 2
lettre_K == 3
lettre_T == 4
lettre_R == 5

None == <<>>

(***************************************************************************)
(* Python string operations.                                               *)
(***************************************************************************)
\* s[a:] and s[a:b] for 0 <= a, with Python's clipping of the bounds.
Tranche(s, a, b) ==
  IF a >= b \/ a >= Len(s) THEN <<>>
  ELSE SubSeq(s, a + 1, IF b > Len(s) THEN Len(s) ELSE b)

Depuis(s, a) == Tranche(s, a, Len(s))

\* m occurs in s at the 0-based index p.
OccurrenceEn(s, m, p) == \A j \in 1..Len(m) : s[p + j] = m[j]

\* m in s
Contient(s, m) == \E p \in 0..(Len(s) - Len(m)) : OccurrenceEn(s, m, p)

\* g when it is an index, else d.
SiTrouve(g, d) == IF g # -1 THEN g ELSE d

\* The lowest index in lo..hi at which m occurs in s, -1 when there is none
\* (the range is halved so that the evaluation stays shallow).
RECURSIVE PremiereOccurrence(_, _, _, _)
PremiereOccurrence(s, m, lo, hi) ==
  IF lo > hi THEN -1
  ELSE IF lo = hi THEN (IF OccurrenceEn(s, m, lo) THEN lo ELSE -1)
  ELSE SiTrouve(PremiereOccurrence(s, m, lo, (lo + hi) \div 2),
                PremiereOccurrence(s, m, (lo + hi) \div 2 + 1, hi))

\* s.find(m, depart) for depart >= 0.
TrouveDepuis(s, m, depart) == PremiereOccurrence(s, m, depart, Len(s) - Len(m))

Trouve(s, m) == TrouveDepuis(s, m, 0)

\* s.split(m, 1) when m occurs in s: the parts before and after the first m.
AvantPremier(s, m) == Tranche(s, 0, Trouve(s, m))
ApresPremier(s, m) == Depuis(s, Trouve(s, m) + Len(m))

Xor(a, b) == (a + b) % 2

\* texte[a:b] of a string of characters, 0 <= a, with Python's clipping.
TrancheTexte(texte, a, b) ==
  IF a >= b \/ a >= Len(texte) THEN ""
  ELSE SubSeq(texte, a + 1, IF b > Len(texte) THEN Len(texte) ELSE b)

\* The characters '1' and '0' (lines 153, 159).
car_un == "i"
car_zero == "o"

\* int(bit) of one character, '0' or '1'.
Entier(caractere) == CASE caractere = car_zero -> 0 [] caractere = car_un -> 1

\* texte[k], k 0-based, read as a number.
BitEn(texte, k) == Entier(SubSeq(texte, k + 1, k + 1))

\* The characters of a string read as numbers, one after the other (the for
\* loops of lines 205-206 and 248-249).
Bits(texte) == [k \in 1..Len(texte) |-> BitEn(texte, k - 1)]

(***************************************************************************)
(* trouve_etat_init and descramble_etat_initial (lines 168-212).           *)
(***************************************************************************)
Puissance2(k) ==
  CASE k = 0 -> 1 [] k = 1 -> 2 [] k = 2 -> 4 [] k = 3 -> 8 [] k = 4 -> 16
    [] k = 5 -> 32 [] k = 6 -> 64 [] k = 7 -> 128 [] k = 8 -> 256
    [] k = 9 -> 512 [] k = 10 -> 1024 [] k = 11 -> 2048

\* etat_initiaux[i]: the digits of bin(i)[2:].zfill(nbr_bits) (line 181).
EtatInitial(i) == [k \in 1..nbr_bits |-> (i \div Puissance2(nbr_bits - k)) % 2]

\* Lines 206-210 with the received bit shifted into the register in the place
\* of the feedback bit (a self-synchronising descrambler).
EtapeEtatInitialAutoSync(registre, bit_scramble) ==
  [bit |-> Xor(bit_scramble, Xor(registre[9], registre[11])),
   lfsr |-> <<bit_scramble>> \o SubSeq(registre, 1, Len(registre) - 1)]

\* One iteration of the loop of descramble_etat_initial (lines 206-210): the
\* descrambled bit and the register after the shift.
EtapeEtatInitial(registre, bit_scramble) ==
  [bit |-> Xor(bit_scramble, Xor(registre[9], registre[11])),
   lfsr |-> <<Xor(registre[9], registre[11])>> \o SubSeq(registre, 1, Len(registre) - 1)]

\* The loop of descramble_etat_initial (lines 205-210) over the characters
\* lo..hi of chaine_scramblee, from the register content registre: the string
\* it appends to chaine_descramblee and the register after it.  The range is
\* halved so that the evaluation stays shallow.
RECURSIVE BoucleEtatInitial(_, _, _, _)
UnEtatInitial(e) == [sortie |-> <<e.bit>>, lfsr |-> e.lfsr]
JointEtatInitial(g, d) == [sortie |-> g.sortie \o d.sortie, lfsr |-> d.lfsr]
SuiteEtatInitial(chaine_scramblee, milieu, hi, g) ==
  JointEtatInitial(g, BoucleEtatInitial(chaine_scramblee, milieu + 1, hi, g.lfsr))

BoucleEtatInitial(chaine_scramblee, lo, hi, registre) ==
  IF lo > hi THEN [sortie |-> <<>>, lfsr |-> registre]
  ELSE IF lo = hi THEN UnEtatInitial(EtapeEtatInitial(registre, chaine_scramblee[lo]))
  ELSE SuiteEtatInitial(chaine_scramblee, (lo + hi) \div 2, hi,
                        BoucleEtatInitial(chaine_scramblee, lo, (lo + hi) \div 2, registre))

descramble_etat_initial(chaine_scramblee, etat_initial) ==
  BoucleEtatInitial(chaine_scramblee, 1, Len(chaine_scramblee), etat_initial).sortie

\* "1" * 10
motif_sync_court == [k \in 1..10 |-> 1]

\* "1" * 40
motif_sync == [k \in 1..longueur_motif_sync |-> 1]

\* The test of line 183 with "1" * 39.
EtatValide39(sync_idle, i) ==
  Contient(descramble_etat_initial(sync_idle, EtatInitial(i)), SubSeq(motif_sync, 2, Len(motif_sync)))

\* The test of line 183 on candidate number i.
EtatValide(sync_idle, i) ==
  Contient(descramble_etat_initial(sync_idle, EtatInitial(i)), motif_sync)

\* The first i in lo..hi that passes the test, -1 when none does: the for
\* loop of lines 182-185 over that part of etat_initiaux, halved so that the
\* evaluation stays shallow.
RECURSIVE PremierEtatValide(_, _, _)
PremierEtatValide(sync_idle, lo, hi) ==
  IF lo = hi
  THEN IF EtatValide(sync_idle, lo) THEN lo ELSE -1
  ELSE SiTrouve(PremierEtatValide(sync_idle, lo, (lo + hi) \div 2),
                PremierEtatValide(sync_idle, (lo + hi) \div 2 + 1, hi))

\* Lines 184-186: what trouve_etat_init returns when candidate i is the first
\* to pass (i = -1: none did), <<etat, sync>>.
RetourEtat(i) == IF i # -1 THEN <<EtatInitial(i), TRUE>> ELSE <<None, FALSE>>

\* trouve_etat_init(nbr_bits, sync_idle).
trouve_etat_init(sync_idle) ==
  RetourEtat(PremierEtatValide(sync_idle, 0, Puissance2(nbr_bits) - 1))

(***************************************************************************)
(* The frame decoder (lines 316-346).                                      *)
(***************************************************************************)
\* table_5b_4b.get(groupe, ''): a nibble as four characters, one letter for
\* a control group, nothing for any other key (lines 317, 340-346).
table_5b_4b(groupe) ==
  CASE groupe = <<1,1,1,1,0>> -> <<0,0,0,0>> [] groupe = <<0,1,0,0,1>> -> <<0,0,0,1>>
    [] groupe = <<1,0,1,0,0>> -> <<0,0,1,0>> [] groupe = <<1,0,1,0,1>> -> <<0,0,1,1>>
    [] groupe = <<0,1,0,1,0>> -> <<0,1,0,0>> [] groupe = <<0,1,0,1,1>> -> <<0,1,0,1>>
    [] groupe = <<0,1,1,1,0>> -> <<0,1,1,0>> [] groupe = <<0,1,1,1,1>> -> <<0,1,1,1>>
    [] groupe = <<1,0,0,1,0>> -> <<1,0,0,0>> [] groupe = <<1,0,0,1,1>> -> <<1,0,0,1>>
    [] groupe = <<1,0,1,1,0>> -> <<1,0,1,0>> [] groupe = <<1,0,1,1,1>> -> <<1,0,1,1>>
    [] groupe = <<1,1,0,1,0>> -> <<1,1,0,0>> [] groupe = <<1,1,0,1,1>> -> <<1,1,0,1>>
    [] groupe = <<1,1,1,0,0>> -> <<1,1,1,0>> [] groupe = <<1,1,1,0,1>> -> <<1,1,1,1>>
    [] groupe = <<1,1,0,0,0>> -> <<lettre_J>> [] groupe = <<1,0,0,0,1>> -> <<lettre_K>>
    [] groupe = <<0,1,1,0,1>> -> <<lettre_T>> [] groupe = <<0,0,1,1,1>> -> <<lettre_R>>
    [] OTHER -> <<>>

\* The number of values of range(0, n, pas).
NbPas(n, pas) == (n + pas - 1) \div pas

\* The join of line 317 over the groups lo..hi of donnees (group g is
\* donnees[5g:5g+5]), halved so that the evaluation stays shallow on a long
\* frame.
RECURSIVE JointDecode(_, _, _)
JointDecode(donnees, lo, hi) ==
  IF lo > hi THEN <<>>
  ELSE IF lo = hi THEN table_5b_4b(Tranche(donnees, 5 * lo, 5 * lo + 5))
  ELSE LET milieu == (lo + hi) \div 2
       IN JointDecode(donnees, lo, milieu) \o JointDecode(donnees, milieu + 1, hi)

decode_5b_4b(donnees) == JointDecode(donnees, 0, NbPas(Len(donnees), 5) - 1)

\* The join of line 321 over the slices lo..hi of 8 characters:
\* donnees_binaires[i+4:i+8] + donnees_binaires[i:i+4].
RECURSIVE JointEchange(_, _, _)
JointEchange(donnees_binaires, lo, hi) ==
  IF lo > hi THEN <<>>
  ELSE IF lo = hi
  THEN Tranche(donnees_binaires, 8 * lo + 4, 8 * lo + 8) \o Tranche(donnees_binaires, 8 * lo, 8 * lo + 4)
  ELSE LET milieu == (lo + hi) \div 2
       IN JointEchange(donnees_binaires, lo, milieu) \o JointEchange(donnees_binaires, milieu + 1, hi)

\* echange_paquet without the swap.
echange_paquet_sans_echange(donnees_binaires) == donnees_binaires

echange_paquet(donnees_binaires) ==
  JointEchange(donnees_binaires, 0, NbPas(Len(donnees_binaires), 8) - 1)

\* int(texte, 2) for a text of binary digits.
RECURSIVE EntierBase2(_)
EntierBase2(texte) ==
  IF texte = <<>> THEN 0
  ELSE 2 * EntierBase2(SubSeq(texte, 1, Len(texte) - 1)) + texte[Len(texte)]

\* hex(v)[2:]: the hexadecimal digits of v, no leading zero.
RECURSIVE ChiffresHexa(_)
ChiffresHexa(v) == IF v < 16 THEN <<v>> ELSE Append(ChiffresHexa(v \div 16), v % 16)

\* texte.zfill(2)
Zfill2(texte) == IF Len(texte) >= 2 THEN texte ELSE [k \in 1..(2 - Len(texte)) |-> 0] \o texte

\* The join of line 325 over the slices lo..hi of 8 characters.
RECURSIVE JointHexa(_, _, _)
JointHexa(donnees_binaires, lo, hi) ==
  IF lo > hi THEN <<>>
  ELSE IF lo = hi
  THEN Zfill2(ChiffresHexa(EntierBase2(Tranche(donnees_binaires, 8 * lo, 8 * lo + 8))))
  ELSE LET milieu == (lo + hi) \div 2
       IN JointHexa(donnees_binaires, lo, milieu) \o JointHexa(donnees_binaires, milieu + 1, hi)

binaire_vers_hexa(donnees_binaires) ==
  JointHexa(donnees_binaires, 0, NbPas(Len(donnees_binaires), 8) - 1)

\* int(..., 2) raises ValueError on a character that is no binary digit, and
\* binaire_vers_hexa with it.
ErreurHexa(donnees_binaires) ==
  \E k \in 1..Len(donnees_binaires) : donnees_binaires[k] \notin {0, 1}

(***************************************************************************)
(* descramble (lines 216-312), one bit at a time.                          *)
(***************************************************************************)
\* Lines 249-252 with the taps lfsr[7] and lfsr[10].
EtapeDescrambleAutresPrises(registre, bit_scramble) ==
  [bit |-> Xor(bit_scramble, Xor(registre[8], registre[11])),
   lfsr |-> <<Xor(registre[8], registre[11])>> \o SubSeq(registre, 1, Len(registre) - 1)]

\* Lines 249-252 with the received bit shifted into the register in the
\* place of the feedback bit.
EtapeDescrambleAutoSync(registre, bit_scramble) ==
  [bit |-> Xor(bit_scramble, Xor(registre[9], registre[11])),
   lfsr |-> <<bit_scramble>> \o SubSeq(registre, 1, Len(registre) - 1)]

\* Lines 249-252: the descrambled bit and the register after the shift.
EtapeDescramble(registre, bit_scramble) ==
  [bit |-> Xor(bit_scramble, Xor(registre[9], registre[11])),
   lfsr |-> <<Xor(registre[9], registre[11])>> \o SubSeq(registre, 1, Len(registre) - 1)]

\* Lines 254 and 261 without the discard of lines 258-259.
ChaineSansOubli(t, bit_descramble) == Append(t, bit_descramble)

\* Lines 254-261: the buffer after the append and the discard of the oldest
\* bit, which is chaine_courante.
ChaineCourante(t, bit_descramble) ==
  IF Len(t) + 1 > taille_tampon THEN Tail(Append(t, bit_descramble))
  ELSE Append(t, bit_descramble)

\* Lines 264-267: the buffer after the IDLE clean-up.
NettoieEn(chaine_courante, idx) ==
  IF idx # -1 THEN dix_uns \o Depuis(chaine_courante, idx + Len(idle)) ELSE chaine_courante

Nettoie(chaine_courante) == NettoieEn(chaine_courante, Trouve(chaine_courante, idle))

\* Line 270: the frame start test.
DebutDetecte(dans, chaine_courante) ==
  ~dans /\ Contient(chaine_courante, marqueur_debut \o suite_debut)

\* Line 274 without line 275.
TrameSansMarqueur(chaine_courante) == ApresPremier(chaine_courante, marqueur_debut)

\* Lines 274-275: the accumulator at a frame start.
TrameAuDebut(chaine_courante) == marqueur_debut \o ApresPremier(chaine_courante, marqueur_debut)

\* Line 285, marqueur_fin in trame_courante, for the accumulator after its
\* n-th appended bit (n = compteur_timeout after line 283).  The accumulator a
\* frame starts with can hold the marker anywhere.  After that bit the frame
\* is left as soon as the marker is in the accumulator, so from the second
\* bit on the marker can only be the last 15 bits: only they are read (an
\* accumulator grows to 30000 bits).
FinDansTrame(trame, n) ==
  IF n <= 1 THEN Contient(trame, marqueur_fin)
  ELSE Len(trame) >= Len(marqueur_fin)
       /\ OccurrenceEn(trame, marqueur_fin, Len(trame) - Len(marqueur_fin))

\* Line 286, trame_courante.split(marqueur_fin, 1), read the same way:
\* <<contenu, reste>>.
CoupeEn(trame, p) == <<Tranche(trame, 0, p), Depuis(trame, p + Len(marqueur_fin))>>

CoupeFin(trame, n) ==
  CoupeEn(trame, IF n <= 1 THEN Trouve(trame, marqueur_fin) ELSE Len(trame) - Len(marqueur_fin))

\* Line 295 with > in the place of >=.
TimeoutApres(compteur) == compteur > MAX_BITS_SANS_FIN

\* Line 295.
Timeout(compteur) == compteur >= MAX_BITS_SANS_FIN

\* Line 303 with the test always true.
SuiviSynchroToujours(dans) == TRUE

\* Line 303: the synchronisation is followed outside a frame only (dans is
\* dans_une_trame after lines 270-300).
SuiviSynchro(dans) == ~dans

\* Line 304 without marqueur_debut among the patterns.
MotifPresentSansDebut(chaine_courante) ==
  \/ Contient(chaine_courante, marqueur_fin)
  \/ Contient(chaine_courante, idle)

\* Line 304.
MotifPresent(chaine_courante) ==
  \/ Contient(chaine_courante, marqueur_debut)
  \/ Contient(chaine_courante, marqueur_fin)
  \/ Contient(chaine_courante, idle)

\* Line 308 with >= in the place of >.
PerteSynchroAuSeuil(compteur) == compteur >= seuil_perte_synchro

\* Line 308 with 0 in the place of the threshold.
PerteSynchroSansSeuil(compteur) == compteur > 0

\* Line 308.
PerteSynchro(compteur) == compteur > seuil_perte_synchro

\* Line 273.
IndexDebutTrame(offset, nbr) == offset + nbr

\* Line 273 with the list replaced, not extended.
IndexTramesRemplace(liste, offset, nbr) == <<IndexDebutTrame(offset, nbr)>>

\* Line 273: index_trames.append(offset + nbr_bits_traites).
IndexTramesAuDebut(liste, offset, nbr) == Append(liste, IndexDebutTrame(offset, nbr))

\* Line 246 with the count handed back as it was given.
CompteSansEtatInchange(nbr) == nbr

\* Line 246: the count descramble returns without a seed.
CompteSansEtat(nbr) == nbr + saut_sans_etat

(***************************************************************************)
(* pretraitement_signal_mlt3 (lines 84-127).  A sample is a whole number   *)
(* of hundredths and a period a whole number of picoseconds; the           *)
(* arithmetic is exact (the floating point of the source is not).          *)
(***************************************************************************)
\* 0.05, in hundredths (line 104).
seuil_debut == 5
\* seuil = 0.4 (line 385), as a fraction.
seuil == <<2, 5>>
\* 1 / 125e6 s, in picoseconds (line 118).
periode_symbole == 8000

\* Lines 103-105: the number of leading samples below 0.05.
RECURSIVE DebutUtile(_, _)
DebutUtile(signal_brut, i) ==
  IF i < Len(signal_brut) /\ signal_brut[i + 1] < seuil_debut
  THEN DebutUtile(signal_brut, i + 1)
  ELSE i

\* Line 106: donnees[i:].
Rogne(signal_brut) == Depuis(signal_brut, DebutUtile(signal_brut, 0))

RECURSIVE Somme(_, _)
Somme(signal_brut, k) == IF k = 0 THEN 0 ELSE signal_brut[k] + Somme(signal_brut, k - 1)

\* Line 109, donnees - np.mean(donnees), every sample multiplied by the
\* number of samples (line 110 divides by the greatest of them, which takes
\* the factor away).
Centre(signal_brut) ==
  [k \in 1..Len(signal_brut) |->
     Len(signal_brut) * signal_brut[k] - Somme(signal_brut, Len(signal_brut))]

ValeurAbsolue(x) == IF x < 0 THEN -x ELSE x

\* np.max(np.abs(donnees)) of line 110, for samples that are not empty.
MaxAbs(signal_brut) ==
  CHOOSE m \in {ValeurAbsolue(signal_brut[k]) : k \in 1..Len(signal_brut)} :
    \A k \in 1..Len(signal_brut) : ValeurAbsolue(signal_brut[k]) <= m

\* Line 110 on no sample: np.max raises ValueError.
ErreurPretraitement(signal_brut) == Rogne(signal_brut) = <<>>

\* Lines 110-115 for one sample x and the greatest absolute value m: x / m
\* against seuil and -seuil.  With m = 0 the quotient is nan, both comparisons
\* are false and the level is the 0 of np.zeros_like.
Quantifie(x, m) ==
  IF m = 0 THEN 0
  ELSE IF seuil[2] * x > seuil[1] * m THEN 1
  ELSE IF seuil[2] * x < -(seuil[1] * m) THEN -1
  ELSE 0

MiseEnFormeDe(centre, m) == [k \in 1..Len(centre) |-> Quantifie(centre[k], m)]

\* Lines 109-115: the ternary signal of samples that are not empty.
MiseEnForme(signal_brut) == MiseEnFormeDe(Centre(signal_brut), MaxAbs(Centre(signal_brut)))

\* Line 118 with the quotient rounded to the nearest whole number.
NbrEchBitArrondi(periode) == (2 * periode_symbole + periode) \div (2 * periode)

\* Line 118: int(1 / (periode_echantillon * 125e6)).
NbrEchBit(periode) == periode_symbole \div periode

\* Line 122: np.where(signal_mlt3[:-1] != signal_mlt3[1:])[0].
Transitions(signal) == {i \in 0..(Len(signal) - 2) : signal[i + 1] # signal[i + 2]}

PremiereTransition(signal) ==
  CHOOSE i \in Transitions(signal) : \A j \in Transitions(signal) : i <= j

\* Lines 123-126: the signal from the sample after its first transition on,
\* the signal itself when it has none.
Cale(signal) ==
  IF Transitions(signal) # {} THEN Depuis(signal, PremiereTransition(signal) + 1) ELSE signal

(***************************************************************************)
(* decode_mlt3 (lines 131-164), one iteration of its while loop at a time. *)
(* A ternary signal is a sequence over {-1, 0, 1}; sample number i of the  *)
(* source (0-based) is signal[i + 1].                                      *)
(***************************************************************************)
\* Line 145: the test of the while loop.
ResteDesSymboles(indice_courant, n, longueur) == indice_courant + 2 * n < longueur

\* Lines 146-147: the samples read in the middle of the current and of the
\* next symbol.
ValeurCourante(signal, indice_courant, n) == signal[indice_courant + n \div 2 + 1]
ValeurSuivante(signal, indice_courant, n) == signal[indice_courant + n + n \div 2 + 1]

\* Lines 153-154: the first sample from position i on that differs from
\* valeur_courante, the length of the signal when there is none.
RECURSIVE NiveauSuivant(_, _, _)
NiveauSuivant(signal, i, valeur_courante) ==
  IF i < Len(signal) /\ signal[i + 1] = valeur_courante
  THEN NiveauSuivant(signal, i + 1, valeur_courante)
  ELSE i

\* Lines 155-157: the index after a '1'.
ApresUn(indice_courant, index_niveau_suivant) ==
  IF index_niveau_suivant = indice_courant THEN index_niveau_suivant + 1
  ELSE index_niveau_suivant

\* Line 160: the index after a '0'.
ApresZero(indice_courant, n) == indice_courant + n

(***************************************************************************)
(* The transmitter: what builds the captures the decoder is run on.  It is *)
(* no part of the program.  A stream is idle symbols, frames (J K, data    *)
(* code groups, T R), and stretches of anything else; it is scrambled with *)
(* an 11-bit register and sent as MLT-3 levels held for a fixed number of  *)
(* samples.                                                                *)
(***************************************************************************)
groupe_J == <<1,1,0,0,0>>
groupe_K == <<1,0,0,0,1>>
groupe_T == <<0,1,1,0,1>>
groupe_R == <<0,0,1,1,1>>

\* The 4B5B data code group of a nibble 0..15.
Code5b(q) ==
  CASE q = 0 -> <<1,1,1,1,0>> [] q = 1 -> <<0,1,0,0,1>> [] q = 2 -> <<1,0,1,0,0>>
    [] q = 3 -> <<1,0,1,0,1>> [] q = 4 -> <<0,1,0,1,0>> [] q = 5 -> <<0,1,0,1,1>>
    [] q = 6 -> <<0,1,1,1,0>> [] q = 7 -> <<0,1,1,1,1>> [] q = 8 -> <<1,0,0,1,0>>
    [] q = 9 -> <<1,0,0,1,1>> [] q = 10 -> <<1,0,1,1,0>> [] q = 11 -> <<1,0,1,1,1>>
    [] q = 12 -> <<1,1,0,1,0>> [] q = 13 -> <<1,1,0,1,1>> [] q = 14 -> <<1,1,1,0,0>>
    [] q = 15 -> <<1,1,1,0,1>>

\* The code groups of the nibbles lo..hi of quartets, in order.
RECURSIVE CodeEntre(_, _, _)
CodeEntre(quartets, lo, hi) ==
  IF lo > hi THEN <<>>
  ELSE IF lo = hi THEN Code5b(quartets[lo])
  ELSE CodeEntre(quartets, lo, (lo + hi) \div 2) \o CodeEntre(quartets, (lo + hi) \div 2 + 1, hi)

Code(quartets) == CodeEntre(quartets, 1, Len(quartets))

\* A byte goes on the wire low nibble first.
RECURSIVE QuartetsEntre(_, _, _)
QuartetsEntre(octets, lo, hi) ==
  IF lo > hi THEN <<>>
  ELSE IF lo = hi THEN <<octets[lo] % 16, octets[lo] \div 16>>
  ELSE QuartetsEntre(octets, lo, (lo + hi) \div 2) \o QuartetsEntre(octets, (lo + hi) \div 2 + 1, hi)

Quartets(octets) == QuartetsEntre(octets, 1, Len(octets))

Uns(n) == [k \in 1..n |-> 1]
Zeros(n) == [k \in 1..n |-> 0]
Repete(motif, n) == [k \in 1..(n * Len(motif)) |-> motif[((k - 1) % Len(motif)) + 1]]

\* The plain bits of one segment of a stream.
Segment(s) ==
  CASE s[1] = "uns" -> Uns(s[2])
    [] s[1] = "zeros" -> Zeros(s[2])
    [] s[1] = "debut" -> groupe_J \o groupe_K
    [] s[1] = "fin" -> groupe_T \o groupe_R
    [] s[1] = "quartets" -> Code(s[2])
    [] s[1] = "octets" -> Code(Quartets(s[2]))
    [] s[1] = "repete" -> Repete(Code5b(s[2]), s[3])
    [] s[1] = "bits" -> s[2]

RECURSIVE ClairDepuis(_, _)
ClairDepuis(segments, k) ==
  IF k > Len(segments) THEN <<>> ELSE Segment(segments[k]) \o ClairDepuis(segments, k + 1)

\* The plain (descrambled) stream of a case.
Clair(c) == ClairDepuis(c.segments, 1)

\* The side-stream scrambler: every plain bit is added to the feedback bit of
\* the register, which shifts on its own.
EtapeBrouilleur(registre, bit_clair) ==
  [bit |-> Xor(bit_clair, Xor(registre[9], registre[11])),
   lfsr |-> <<Xor(registre[9], registre[11])>> \o SubSeq(registre, 1, Len(registre) - 1)]

BrouilleUn(e) == [sortie |-> <<e.bit>>, lfsr |-> e.lfsr]
BrouilleJoint(g, d) == [sortie |-> g.sortie \o d.sortie, lfsr |-> d.lfsr]

\* The bits lo..hi of clair scrambled from the register content registre, and
\* the register after them.
RECURSIVE BrouilleEntre(_, _, _, _)
BrouilleSuite(clair, milieu, hi, g) == BrouilleJoint(g, BrouilleEntre(clair, milieu + 1, hi, g.lfsr))

BrouilleEntre(clair, lo, hi, registre) ==
  IF lo > hi THEN [sortie |-> <<>>, lfsr |-> registre]
  ELSE IF lo = hi THEN BrouilleUn(EtapeBrouilleur(registre, clair[lo]))
  ELSE BrouilleSuite(clair, (lo + hi) \div 2, hi,
                     BrouilleEntre(clair, lo, (lo + hi) \div 2, registre))

Brouille(clair, etat) == BrouilleEntre(clair, 1, Len(clair), etat).sortie

\* The scrambled stream of a case.
Capture(c) == Brouille(Clair(c), EtatInitial(c.graine))

\* The characters of the bits lo..hi of b.
RECURSIVE CaracteresEntre(_, _, _)
CaracteresEntre(b, lo, hi) ==
  IF lo > hi THEN ""
  ELSE IF lo = hi THEN (IF b[lo] = 1 THEN car_un ELSE car_zero)
  ELSE CaracteresEntre(b, lo, (lo + hi) \div 2) \o CaracteresEntre(b, (lo + hi) \div 2 + 1, hi)

Caracteres(b) == CaracteresEntre(b, 1, Len(b))

\* MLT-3: a '1' moves to the next level of the cycle 0, +1, 0, -1, a '0'
\* keeps the level.
Niveau(phase) == CASE phase % 4 = 0 -> 0 [] phase % 4 = 1 -> 1 [] phase % 4 = 2 -> 0 [] phase % 4 = 3 -> -1

RECURSIVE PhasesEntre(_, _, _, _)
PhasesJoint(g, d) == [sortie |-> g.sortie \o d.sortie, phase |-> d.phase]
PhasesSuite(b, milieu, hi, g) == PhasesJoint(g, PhasesEntre(b, milieu + 1, hi, g.phase))

\* The phase of the cycle during each of the symbols lo..hi.
PhasesEntre(b, lo, hi, phase) ==
  IF lo > hi THEN [sortie |-> <<>>, phase |-> phase]
  ELSE IF lo = hi THEN [sortie |-> <<(phase + b[lo]) % 4>>, phase |-> (phase + b[lo]) % 4]
  ELSE PhasesSuite(b, (lo + hi) \div 2, hi, PhasesEntre(b, lo, (lo + hi) \div 2, phase))

Etale(phases, n) == [j \in 1..(n * Len(phases)) |-> Niveau(phases[((j - 1) \div n) + 1])]

\* The ternary signal of the bits b at n samples per symbol.
EncodeMlt3(b, n) == Etale(PhasesEntre(b, 1, Len(b), 0).sortie, n)

(***************************************************************************)
(* State: the variables of the main program (lines 385-411), the locals of *)
(* the running decode_mlt3 and descramble calls, the position of the       *)
(* program, and observers that no line of the program reads.               *)
(***************************************************************************)
VARIABLES
  donnees,              \* the waveform read from the file, in hundredths
  periode_echantillon,  \* the sample period, in picoseconds
  signal_mlt3,          \* the ternary signal handed to decode_mlt3
  nbr_ech_bit,          \* samples per symbol
  indice,               \* decode_mlt3: the index into the signal
  bits_decodes_mlt3,    \* the scrambled bitstream
  index,                \* global bit offset
  sync,
  state_init,
  compteur_trame,
  lfsr,
  bit_descramble,       \* descramble: the last descrambled bit (0 before the first)
  tampon,
  trames_descramblees,
  index_trames,
  trame_courante,
  dans_une_trame,
  compteur_desynchro,
  compteur_timeout,
  nbr_bits_traites,
  i_trame,              \* i of the for loop of line 420
  sorties,              \* what was printed: <<hex_trame, index en bits>> per frame
  trame,                \* frame loop: the frame decoded from 5B to 4B (line 431)
  trame_echangee,       \* frame loop: trame with its nibbles swapped (line 432)
  hex_trame,            \* frame loop: the hexadecimal text (line 433)
  pc,                   \* "mlt3", "boucle", "descramble", "trames", "fin", "erreur"
  cas,                  \* observer: the case the capture was built from
  evenement,            \* observer: what the last step did
  bits_en_trame,        \* observer: bits processed in the frame since its start
  bits_sans_motif,      \* observer: consecutive bits left without any pattern
  index_emis            \* observer: per emitted frame of the pass, the start index
                        \* recorded when that frame began

vars == <<donnees, periode_echantillon, signal_mlt3, nbr_ech_bit, indice, bits_decodes_mlt3, index, sync, state_init,
          compteur_trame, lfsr, bit_descramble, tampon, trames_descramblees, index_trames,
          trame_courante, dans_une_trame, compteur_desynchro, compteur_timeout,
          nbr_bits_traites, i_trame, sorties, trame, trame_echangee, hex_trame, pc, cas,
          evenement, bits_en_trame, bits_sans_motif, index_emis>>

\* What the program was given (lines 376-380).
entree == <<donnees, periode_echantillon>>

\* The locals of the frame loop (lines 431-433); the empty string stands for
\* a name not assigned yet, which no line reads.
locaux_trame == <<trame, trame_echangee, hex_trame>>

\* What a descramble call leaves alone.
hors_descramble == <<entree, signal_mlt3, nbr_ech_bit, indice, bits_decodes_mlt3, index, state_init,
                     compteur_trame, i_trame, sorties, locaux_trame, cas>>

\* The locals of descramble and their observers.
locaux == <<lfsr, bit_descramble, tampon, trames_descramblees, index_trames, trame_courante,
            dans_une_trame, compteur_desynchro, compteur_timeout, nbr_bits_traites,
            bits_en_trame, bits_sans_motif, index_emis>>

\* Lines 233-243: the locals of descramble at its entry.
LocauxInitiaux ==
  /\ bit_descramble = 0
  /\ tampon = <<>>
  /\ trames_descramblees = <<>>
  /\ index_trames = <<>>
  /\ trame_courante = <<>>
  /\ dans_une_trame = FALSE
  /\ compteur_desynchro = 0
  /\ compteur_timeout = 0
  /\ nbr_bits_traites = 0
  /\ bits_en_trame = 0
  /\ bits_sans_motif = 0
  /\ index_emis = <<>>

\* The waveform is left out; the sample period is the one of n samples per
\* symbol.
EntreeOmise(n) ==
  /\ donnees = <<>>
  /\ periode_echantillon = periode_symbole \div n

\* Lines 402-411: the variables of the main program before its while loop.
PrincipalInitial ==
  /\ index = 0
  /\ sync = FALSE
  /\ state_init = None
  /\ compteur_trame = 1
  /\ lfsr = None
  /\ LocauxInitiaux
  /\ i_trame = 0
  /\ sorties = <<>>
  /\ trame = <<>>
  /\ trame_echangee = <<>>
  /\ hex_trame = <<>>
  /\ evenement = "aucun"

\* The program at the call of decode_mlt3 (line 394) on the signal of the
\* case c.
InitMlt3(c) ==
  /\ cas = c
  /\ EntreeOmise(c.n)
  /\ signal_mlt3 = EncodeMlt3(Capture(c), c.n)
  /\ nbr_ech_bit = c.n
  /\ indice = 0
  /\ bits_decodes_mlt3 = ""
  /\ PrincipalInitial
  /\ pc = "mlt3"

\* The main program before its while loop (lines 402-411) on the bitstream
\* of the case c; the signal it was decoded from is left out.
InitBoucle(c) ==
  /\ cas = c
  /\ EntreeOmise(1)
  /\ signal_mlt3 = <<>>
  /\ nbr_ech_bit = 1
  /\ indice = 0
  /\ bits_decodes_mlt3 = Caracteres(Capture(c))
  /\ PrincipalInitial
  /\ pc = IF Len(bits_decodes_mlt3) > 0 THEN "boucle" ELSE "fin"

\* A call descramble(b, etat, True, 0, offset=0) at its for loop, b the
\* bitstream of the case c and etat the register content it was scrambled
\* from.
InitPasse(c) ==
  /\ cas = c
  /\ EntreeOmise(1)
  /\ signal_mlt3 = <<>>
  /\ nbr_ech_bit = 1
  /\ indice = 0
  /\ bits_decodes_mlt3 = Caracteres(Capture(c))
  /\ index = 0
  /\ sync = TRUE
  /\ state_init = EtatInitial(c.graine)
  /\ compteur_trame = 1
  /\ lfsr = EtatInitial(c.graine)
  /\ LocauxInitiaux
  /\ i_trame = 0
  /\ sorties = <<>>
  /\ trame = <<>>
  /\ trame_echangee = <<>>
  /\ hex_trame = <<>>
  /\ pc = "descramble"
  /\ evenement = "aucun"

\* One iteration of the while loop of decode_mlt3 (lines 145-160).
DecodeMlt3Bit ==
  /\ pc = "mlt3"
  /\ ResteDesSymboles(indice, nbr_ech_bit, Len(signal_mlt3))
  /\ \E valeur_courante \in {ValeurCourante(signal_mlt3, indice, nbr_ech_bit)} :
     \E valeur_suivante \in {ValeurSuivante(signal_mlt3, indice, nbr_ech_bit)} :
        IF valeur_courante # valeur_suivante
        THEN /\ bits_decodes_mlt3' = bits_decodes_mlt3 \o car_un
             /\ indice' = ApresUn(indice, NiveauSuivant(signal_mlt3, indice, valeur_courante))
        ELSE /\ bits_decodes_mlt3' = bits_decodes_mlt3 \o car_zero
             /\ indice' = ApresZero(indice, nbr_ech_bit)
  /\ evenement' = "symbole"
  /\ UNCHANGED <<signal_mlt3, nbr_ech_bit, index, sync, state_init, compteur_trame, i_trame,
                 sorties, pc, cas>>
  /\ UNCHANGED <<entree, locaux, locaux_trame>>

\* Lines 145 and 162, then the loop test of line 413: decode_mlt3 returns.
RetourMlt3 ==
  /\ pc = "mlt3"
  /\ ~ResteDesSymboles(indice, nbr_ech_bit, Len(signal_mlt3))
  /\ pc' = IF Len(bits_decodes_mlt3) > 0 THEN "boucle" ELSE "fin"
  /\ evenement' = "aucun"
  /\ UNCHANGED <<signal_mlt3, nbr_ech_bit, indice, bits_decodes_mlt3, index, sync, state_init,
                 compteur_trame, i_trame, sorties, cas>>
  /\ UNCHANGED <<entree, locaux, locaux_trame>>

\* Line 415 with the first bits of the stream in the place of the bits at
\* the index.
PrefixeSynchroAuDebut(texte, position) == TrancheTexte(texte, 0, longueur_prefixe)

\* Line 415: bits_decodes_mlt3[index:index + 50].
PrefixeSynchro(texte, position) == TrancheTexte(texte, position, position + longueur_prefixe)

\* Lines 413-417 and 233-246: the loop test passed, the seed search when sync
\* is false, and the entry of descramble, which returns at once without a
\* seed.
DebutPasse ==
  /\ pc = "boucle"
  /\ index < Len(bits_decodes_mlt3)
  /\ \E sync_idle \in {Bits(PrefixeSynchro(bits_decodes_mlt3, index))} :
     \E r \in {IF ~sync THEN trouve_etat_init(sync_idle) ELSE <<state_init, sync>>} :
        /\ state_init' = r[1]
        /\ lfsr' = r[1]
        /\ bit_descramble' = 0
        /\ tampon' = <<>>
        /\ trames_descramblees' = <<>>
        /\ index_trames' = <<>>
        /\ trame_courante' = <<>>
        /\ dans_une_trame' = FALSE
        /\ compteur_desynchro' = 0
        /\ compteur_timeout' = 0
        /\ bits_en_trame' = 0
        /\ bits_sans_motif' = 0
        /\ index_emis' = <<>>
        /\ i_trame' = 0
        /\ IF r[1] = None
           THEN /\ nbr_bits_traites' = CompteSansEtat(0)
                /\ sync' = FALSE
                /\ pc' = "trames"
                /\ evenement' = "sans_etat"
           ELSE /\ nbr_bits_traites' = 0
                /\ sync' = r[2]
                /\ pc' = "descramble"
                /\ evenement' = IF ~sync THEN "etat_trouve" ELSE "aucun"
  /\ UNCHANGED <<entree, signal_mlt3, nbr_ech_bit, indice, bits_decodes_mlt3, index,
                 compteur_trame, sorties, locaux_trame, cas>>

\* One iteration of the for loop of descramble (lines 248-311).  The values
\* bound one after the other are, in the order of the source: the descrambled
\* bit and the shifted register; chaine_courante; the outcome of the tests of
\* lines 270, 285 and 295; dans_une_trame after line 300; the outcome of the
\* tests of lines 304 and 308.
DescrambleBit ==
  /\ pc = "descramble"
  /\ nbr_bits_traites < Len(bits_decodes_mlt3) - index
  /\ \E e \in {EtapeDescramble(lfsr, BitEn(bits_decodes_mlt3, index + nbr_bits_traites))} :
     \E chaine_courante \in {ChaineCourante(tampon, e.bit)} :
     \E debut \in {DebutDetecte(dans_une_trame, chaine_courante)} :
     \E fin \in {~debut /\ dans_une_trame
                 /\ FinDansTrame(Append(trame_courante, e.bit), compteur_timeout + 1)} :
     \E timeout \in {~debut /\ dans_une_trame /\ ~fin /\ Timeout(compteur_timeout + 1)} :
     \E dans1 \in {IF debut THEN TRUE ELSE IF fin \/ timeout THEN FALSE ELSE dans_une_trame} :
     \E sans_motif \in {SuiviSynchro(dans1) /\ ~MotifPresent(chaine_courante)} :
     \E perte \in {sans_motif /\ PerteSynchro(compteur_desynchro + 1)} :
     \E coupe \in {IF fin THEN CoupeFin(Append(trame_courante, e.bit), compteur_timeout + 1)
                   ELSE <<>>} :
     \E trame_debut \in {IF debut THEN TrameAuDebut(chaine_courante) ELSE <<>>} :
        /\ lfsr' = e.lfsr
        /\ bit_descramble' = e.bit
        /\ nbr_bits_traites' = nbr_bits_traites + 1
        /\ dans_une_trame' = dans1
        /\ index_trames' =
             IF debut THEN IndexTramesAuDebut(index_trames, index, nbr_bits_traites + 1)
             ELSE index_trames
        /\ trame_courante' = IF debut THEN trame_debut
                             ELSE IF fin \/ timeout THEN <<>>
                             ELSE IF dans_une_trame THEN Append(trame_courante, e.bit)
                             ELSE trame_courante
        /\ tampon' = IF debut THEN trame_debut
                     ELSE IF fin THEN coupe[2]
                     ELSE IF timeout THEN <<>>
                     ELSE Nettoie(chaine_courante)
        /\ trames_descramblees' =
             IF fin THEN Append(trames_descramblees, coupe[1] \o marqueur_fin)
             ELSE trames_descramblees
        /\ compteur_timeout' = IF debut \/ fin \/ timeout THEN 0
                               ELSE IF dans_une_trame THEN compteur_timeout + 1
                               ELSE compteur_timeout
        /\ compteur_desynchro' = IF ~SuiviSynchro(dans1) THEN compteur_desynchro
                                 ELSE IF ~sans_motif \/ perte THEN 0
                                 ELSE compteur_desynchro + 1
        /\ sync' = IF perte THEN FALSE ELSE sync
        /\ pc' = IF perte THEN "trames" ELSE "descramble"
        /\ evenement' = IF perte THEN "perte" ELSE IF debut THEN "debut"
                        ELSE IF fin THEN "fin" ELSE IF timeout THEN "timeout" ELSE "bit"
        /\ bits_en_trame' = IF debut THEN 0
                            ELSE IF dans_une_trame THEN bits_en_trame + 1
                            ELSE bits_en_trame
        /\ bits_sans_motif' = IF sans_motif THEN bits_sans_motif + 1 ELSE 0
        /\ index_emis' = IF fin THEN Append(index_emis, index_trames[Len(index_trames)])
                         ELSE index_emis
  /\ UNCHANGED hors_descramble

\* Line 312: the for loop is over, descramble returns.
RetourFinDeChaine ==
  /\ pc = "descramble"
  /\ nbr_bits_traites = Len(bits_decodes_mlt3) - index
  /\ pc' = "trames"
  /\ evenement' = "bout"
  /\ UNCHANGED <<sync, hors_descramble, locaux>>

(***************************************************************************)
(* The frame loop of the main program (lines 420-452) and the end of an    *)
(* iteration of the while loop (line 465, then the test of line 413).  The *)
(* dissection by scapy (lines 454-462) belongs to the frame consumer and   *)
(* is not part of the model.                                               *)
(***************************************************************************)
\* Lines 421-427: trame_5b of a frame whose start marker is at index_debut,
\* the empty string when a marker is missing (the frame is skipped either
\* way, lines 424-429).
Trame5bEntre(frame, index_debut, index_fin) ==
  IF index_debut = -1 \/ index_fin = -1 THEN <<>>
  ELSE Tranche(frame, index_debut + Len(marqueur_debut), index_fin)

Trame5bDepuis(frame, index_debut) ==
  Trame5bEntre(frame, index_debut,
               IF index_debut = -1 THEN -1 ELSE TrouveDepuis(frame, marqueur_fin, index_debut))

Trame5b(frame) == Trame5bDepuis(frame, Trouve(frame, marqueur_debut))

\* Lines 431-432.
TrameEchangee(trame_5b) == echange_paquet(decode_5b_4b(trame_5b))

\* Line 435: the frame is too short to be printed.
PetiteTrame(texte_hexa) == texte_hexa = <<>> \/ Len(texte_hexa) < longueur_hex_min

\* Line 440: index_trames[i] of the i-th frame of the pass.
IndexAffiche(liste, i) == liste[i + 1]

\* Line 465 without the addition.
AvanceSurPlace(position, nbr) == position

\* Line 465.
Avance(position, nbr) == position + nbr

\* One iteration of the for loop of line 420.  binaire_vers_hexa raises on
\* a character that is no binary digit and index_trames[i] on an index out
\* of range; an exception is caught nowhere and ends the program.
TraiteTrame ==
  /\ pc = "trames"
  /\ i_trame < Len(trames_descramblees)
  /\ \E trame_5b \in {Trame5b(trames_descramblees[i_trame + 1])} :
     \E decodee \in {decode_5b_4b(trame_5b)} :
     \E echangee \in {TrameEchangee(trame_5b)} :
     \E erreur \in {trame_5b # <<>> /\ ErreurHexa(echangee)} :
     \E hexa \in {IF trame_5b = <<>> \/ erreur THEN <<>> ELSE binaire_vers_hexa(echangee)} :
        /\ IF trame_5b = <<>> THEN UNCHANGED <<trame, trame_echangee>>
           ELSE trame' = decodee /\ trame_echangee' = echangee
        /\ IF trame_5b = <<>> \/ erreur THEN UNCHANGED hex_trame ELSE hex_trame' = hexa
        /\ IF erreur
           THEN /\ pc' = "erreur"
                /\ evenement' = "ValueError"
                /\ UNCHANGED <<i_trame, sorties, compteur_trame>>
           ELSE IF trame_5b = <<>> \/ PetiteTrame(hexa)
           THEN /\ i_trame' = i_trame + 1
                /\ evenement' = "ignoree"
                /\ UNCHANGED <<pc, sorties, compteur_trame>>
           ELSE IF i_trame >= Len(index_trames)
           THEN /\ pc' = "erreur"
                /\ evenement' = "IndexError"
                /\ UNCHANGED <<i_trame, sorties, compteur_trame>>
           ELSE /\ sorties' = Append(sorties, <<hexa, IndexAffiche(index_trames, i_trame)>>)
                /\ compteur_trame' = compteur_trame + 1
                /\ i_trame' = i_trame + 1
                /\ evenement' = "affichee"
                /\ UNCHANGED pc
  /\ UNCHANGED <<entree, signal_mlt3, nbr_ech_bit, indice, bits_decodes_mlt3, index, sync,
                 state_init, cas, locaux>>

\* Line 465, then the loop test of line 413.
FinIteration ==
  /\ pc = "trames"
  /\ i_trame = Len(trames_descramblees)
  /\ index' = Avance(index, nbr_bits_traites)
  /\ pc' = IF index' < Len(bits_decodes_mlt3) THEN "boucle" ELSE "fin"
  /\ evenement' = "avance"
  /\ UNCHANGED <<entree, signal_mlt3, nbr_ech_bit, indice, bits_decodes_mlt3, sync, state_init,
                 compteur_trame, i_trame, sorties, locaux_trame, cas, locaux>>

\* The main program from its while loop on.
Next == DebutPasse \/ DescrambleBit \/ RetourFinDeChaine \/ TraiteTrame \/ FinIteration

\* The main program from the call of decode_mlt3 on.
NextMlt3 == DecodeMlt3Bit \/ RetourMlt3 \/ Next

\* One call of descramble.
NextPasse == DescrambleBit \/ RetourFinDeChaine

(***************************************************************************)
(* The cases.  A case is the stream the transmitter sent (its segments),   *)
(* the register content the scrambler started from (graine, as a number)   *)
(* and the samples per symbol (n).                                         *)
(***************************************************************************)
\* Register contents the cases are scrambled from, spread over 0..2047.
NbGraines == 3
Graine(k) == (k * 683 + 1) % Puissance2(nbr_bits)
Graines == {Graine(k) : k \in 0..(NbGraines - 1)}

\* The four groups the frame start test wants after J K.
confirmation == <<5, 5, 5, 5>>

\* IDLE, one frame carrying the nibbles charge after the confirmation groups,
\* IDLE.
CasTrame(avant, charge, apres, graine) ==
  [genre |-> "trame",
   segments |-> <<<<"uns", avant>>, <<"debut">>, <<"quartets", confirmation \o charge>>,
                  <<"fin">>, <<"uns", apres>>>>,
   graine |-> graine, n |-> 1]

\* IDLE, a stretch of '0' bits, IDLE.
CasBruit(avant, milieu, apres, graine) ==
  [genre |-> "bruit",
   segments |-> <<<<"uns", avant>>, <<"zeros", milieu>>, <<"uns", apres>>>>,
   graine |-> graine, n |-> 1]

\* IDLE, then the bits x.
CasLibre(avant, x, graine) ==
  [genre |-> "libre",
   segments |-> <<<<"uns", avant>>, <<"bits", x>>>>,
   graine |-> graine, n |-> 1]

\* Payloads: a head, then one nibble repeated.
Tetes == {<<>>, <<0, 12, 7, 0>>, <<12, 7, 0>>, <<1, 2, 3, 4, 6, 8>>}
quartet_remplissage == 9
MaxRemplissage == 22
Charge(tete, k) == tete \o [j \in 1..k |-> quartet_remplissage]

\* The least IDLE around a frame: the five '1' of each marker.
idle_min == 5
Entourages == {<<idle_min, idle_min>>, <<27, 25>>}

\* Stretches of '0' whose length brackets the sync loss threshold, after an
\* IDLE of every phase of the clean-up.
PremierAvant == 20
NbPhases == 10
PremierMilieu == 78
NbMilieux == 7

\* Every bitstring of a given length after IDLE.
LongueurLibre == 6
avant_libre == 40

\* IDLE, a frame that starts with the nibbles tete and not with the
\* confirmation groups, ecart bits of IDLE, a frame that starts with the
\* confirmation groups, IDLE.
CasVoisines(avant, tete, ecart, charge, apres, graine) ==
  [genre |-> "voisines",
   segments |-> <<<<"uns", avant>>, <<"debut">>, <<"quartets", tete>>, <<"fin">>,
                  <<"uns", ecart>>, <<"debut">>, <<"quartets", confirmation \o charge>>,
                  <<"fin">>, <<"uns", apres>>>>,
   graine |-> graine, n |-> 1]

\* The IDLE between two frames: the five '1' the two markers share, a run the
\* clean-up leaves alone, a run it cuts.
Ecarts == {idle_min, 12, 25}

\* A payload that makes a frame longer than the buffer.
remplissage_long == 36

CasPasse ==
  {CasTrame(e[1], Charge(t, k), e[2], Graine(0)) :
     e \in Entourages, t \in Tetes, k \in 0..MaxRemplissage}
  \cup {CasBruit(a, m, 30, Graine(1)) :
          a \in PremierAvant..(PremierAvant + NbPhases - 1),
          m \in PremierMilieu..(PremierMilieu + NbMilieux - 1)}
  \cup {CasLibre(avant_libre, x, g) : x \in [1..LongueurLibre -> {0, 1}], g \in Graines}
  \cup {CasVoisines(27, <<1, 2, 3>>, e, Charge(<<>>, 4), 25, Graine(0)) : e \in Ecarts}
  \cup {CasTrame(27, Charge(<<>>, remplissage_long), 25, Graine(0))}

\* One call of descramble with the right register content.
InitPasses == \E c \in CasPasse : InitPasse(c)
SpecPasse == InitPasses /\ [][NextPasse]_vars

\* IDLE alone.
CasIdle(avant, graine) ==
  [genre |-> "idle", segments |-> <<<<"uns", avant>>>>, graine |-> graine, n |-> 1]

\* IDLE, one frame with the group g (any bits) between two runs of nibbles,
\* IDLE.
CasGroupe(avant, devant, g, derriere, apres, graine) ==
  [genre |-> "groupe",
   segments |-> <<<<"uns", avant>>, <<"debut">>, <<"quartets", confirmation \o devant>>,
                  <<"bits", g>>, <<"quartets", derriere>>, <<"fin">>, <<"uns", apres>>>>,
   graine |-> graine, n |-> 1]

\* Any sequence of segments.
CasSuite(segments, graine) ==
  [genre |-> "suite", segments |-> segments, graine |-> graine, n |-> 1]

\* The IDLE in front of the frames the main loop is run on: enough for the
\* seed search.
avant_boucle == 52
apres_boucle == 25

\* Payload lengths around the least printed frame (42 hex characters, the
\* confirmation groups included).
PremierPlein == 35
NbPleins == 5

\* Groups put in a payload: the control groups, two groups the table does not
\* hold, and groups cut short.
GroupesSpeciaux ==
  {groupe_J, groupe_K, groupe_T, groupe_R, <<0,0,0,0,0>>, <<0,0,1,0,0>>, <<1,0>>, <<0,1,0,1>>}
demi_plein == 20
Derrieres == {0, demi_plein}

\* Register contents of the IDLE-only captures.
NbGrainesIdle == 6
GraineIdle(k) == (k * 409) % Puissance2(nbr_bits)
GrainesIdle == {GraineIdle(k) : k \in 0..(NbGrainesIdle - 1)}

\* Stretches of '0' that lose the synchronisation, and what follows them.
bruit_long == 105
QueuesCourtes == {3, 18}
Pleine(k) == <<<<"debut">>, <<"quartets", confirmation \o Charge(<<>>, k)>>, <<"fin">>>>

CasBoucle ==
  {CasTrame(avant_boucle, Charge(<<>>, k), apres_boucle, Graine(0)) :
     k \in PremierPlein..(PremierPlein + NbPleins - 1)}
  \cup {CasTrame(avant_boucle, Charge(<<1, 2, 3, 4, 6, 8>>, PremierPlein), apres_boucle, g) :
          g \in Graines}
  \cup {CasGroupe(avant_boucle, Charge(<<>>, demi_plein), g, Charge(<<>>, k), apres_boucle,
                  Graine(0)) : g \in GroupesSpeciaux, k \in Derrieres}
  \cup {CasIdle(longueur_prefixe, g) : g \in GrainesIdle}
  \cup {CasIdle(k, Graine(0)) : k \in {0, longueur_motif_sync - 1, longueur_motif_sync}}
  \cup {CasBruit(avant_boucle, bruit_long, q, Graine(0)) : q \in QueuesCourtes}
  \cup {CasSuite(<<<<"uns", avant_boucle>>>> \o Pleine(PremierPlein + NbPleins)
                 \o <<<<"uns", apres_boucle>>, <<"zeros", bruit_long>>, <<"uns", avant_boucle>>>>
                 \o Pleine(PremierPlein + NbPleins) \o <<<<"uns", apres_boucle>>>>, Graine(0)),
        CasSuite(<<<<"uns", avant_boucle>>>> \o Pleine(PremierPlein + NbPleins)
                 \o <<<<"uns", apres_boucle>>>> \o Pleine(PremierPlein + NbPleins)
                 \o <<<<"uns", apres_boucle>>>>, Graine(0)),
        CasSuite(<<<<"zeros", 12>>>>, Graine(0)),
        CasSuite(<<<<"zeros", 30>>, <<"uns", avant_boucle>>>> \o Pleine(PremierPlein + NbPleins)
                 \o <<<<"uns", apres_boucle>>>>, Graine(0))}

\* The main program from its while loop on.
Init == \E c \in CasBoucle : InitBoucle(c)
Spec == Init /\ [][Next]_vars

\* Frames as long as the timeout.  The frame of rank 0 has the most groups
\* whose end marker still completes at the 30000th bit in the frame; the frames
\* of the next ranks have one group more each and are followed by a second
\* frame, a stretch of '0' and a few IDLE bits.
GroupesLongs(rang) == (MAX_BITS_SANS_FIN - Len(marqueur_fin)) \div 5 + rang
CasLongue(rang, graine) ==
  [genre |-> "longue", rang |-> rang,
   segments |-> <<<<"uns", avant_boucle>>, <<"debut">>, <<"quartets", confirmation>>,
                  <<"repete", quartet_remplissage, GroupesLongs(rang)>>, <<"fin">>,
                  <<"uns", avant_boucle>>>>
                \o (IF rang = 0 THEN <<>>
                    ELSE Pleine(PremierPlein + NbPleins)
                         \o <<<<"uns", apres_boucle>>, <<"zeros", bruit_long>>, <<"uns", 3>>>>),
   graine |-> graine, n |-> 1]

CasLongs == {CasLongue(0, Graine(0)), CasLongue(1, Graine(0))}

\* The main program on the long cases, from the start of its while loop.
InitLongueDebut == \E c \in CasLongs : InitBoucle(c)
SpecLongueDebut == InitLongueDebut /\ [][Next]_vars

\* The number of bits processed when the frame start test of line 270 passes
\* for the first time on the plain stream clair.
DebutLongue(clair) ==
  Trouve(clair, marqueur_debut \o suite_debut) + Len(marqueur_debut \o suite_debut)

\* The main program in its first pass over the long case c, k bits after the
\* start of the frame: the seed search at index 0 has returned the register
\* content of the scrambler, descramble has consumed the bits up to the k-th
\* after the frame start and is at the top of its for loop.
EnTrame(c, k) ==
  \E clair \in {Clair(c)} :
  \E d \in {DebutLongue(clair)} :
     /\ cas = c
     /\ EntreeOmise(1)
     /\ signal_mlt3 = <<>>
     /\ nbr_ech_bit = 1
     /\ indice = 0
     /\ bits_decodes_mlt3 = Caracteres(Brouille(clair, EtatInitial(c.graine)))
     /\ index = 0
     /\ sync = TRUE
     /\ state_init = EtatInitial(c.graine)
     /\ compteur_trame = 1
     /\ lfsr = BrouilleEntre(clair, 1, d + k, EtatInitial(c.graine)).lfsr
     /\ bit_descramble = clair[d + k]
     /\ tampon = SubSeq(clair, d + k - taille_tampon + 1, d + k)
     /\ trames_descramblees = <<>>
     /\ index_trames = <<d>>
     /\ trame_courante = SubSeq(clair, d - Len(marqueur_debut \o suite_debut) + 1, d + k)
     /\ dans_une_trame = TRUE
     /\ compteur_desynchro = 0
     /\ compteur_timeout = k
     /\ nbr_bits_traites = d + k
     /\ i_trame = 0
     /\ sorties = <<>>
     /\ trame = <<>>
     /\ trame_echangee = <<>>
     /\ hex_trame = <<>>
     /\ pc = "descramble"
     /\ evenement = "bit"
     /\ bits_en_trame = k
     /\ bits_sans_motif = 0
     /\ index_emis = <<>>

\* The main program on the long cases is followed from recul bits before
\* the 30000th bit of the frame.
recul == 3

\* SpecLongueDebut passes through the states SpecLongue starts from.
LongueEnTrame ==
  (cas.genre = "longue" /\ pc = "descramble" /\ index = 0 /\ dans_une_trame
   /\ compteur_timeout = MAX_BITS_SANS_FIN - recul)
    => EnTrame(cas, MAX_BITS_SANS_FIN - recul)

\* The main program on the long frames.
InitLongue == \E c \in CasLongs : EnTrame(c, MAX_BITS_SANS_FIN - recul)
SpecLongue == InitLongue /\ [][Next]_vars

\* The main program on the short cases and on a frame dropped on timeout.
InitComplet ==
  \/ \E c \in CasBoucle : InitBoucle(c)
  \/ EnTrame(CasLongue(1, Graine(0)), MAX_BITS_SANS_FIN - recul)
SpecComplete == InitComplet /\ [][Next]_vars

\* What follows the J/K groups, which stand for the first octet of the
\* preamble: six octets 0x55 and the start frame delimiter 0xD5.
preambule == <<85, 85, 85, 85, 85, 85, 213>>
adresse_destination == <<2, 0, 0, 0, 0, 1>>
adresse_source == <<2, 0, 0, 0, 0, 2>>
ethertype_ipv4 == <<8, 0>>

\* An Ethernet frame between IDLE: the octets that follow J/K.
OctetsTrame(charge_utile) ==
  preambule \o adresse_destination \o adresse_source \o ethertype_ipv4 \o charge_utile

\* IDLE, the frame with the payload charge_utile, IDLE, at n samples per symbol.
CasEthernet(charge_utile, graine, n) ==
  [genre |-> "ethernet",
   segments |-> <<<<"uns", avant_boucle>>, <<"debut">>, <<"octets", OctetsTrame(charge_utile)>>,
                  <<"fin">>, <<"uns", apres_boucle>>>>,
   graine |-> graine, n |-> n]

\* Payloads, and the numbers of samples per symbol.
Donnees == {<<1, 2, 3, 4>>, <<222, 173, 190, 239>>, <<17, 192, 7, 34>>}
MaxEchantillons == 2

CasMlt3 ==
  {CasEthernet(d, Graine(0), n) : d \in Donnees, n \in 1..MaxEchantillons}
  \cup {CasEthernet(<<1, 2, 3, 4>>, g, 1) : g \in Graines}

\* The main program from the call of decode_mlt3 on.
InitSignal == \E c \in CasMlt3 : InitMlt3(c)
SpecMlt3 == InitSignal /\ [][NextMlt3]_vars

\* Lines 385-389: the call of pretraitement_signal_mlt3 and the prints that
\* follow it, of which line 389 divides by nbr_ech_bit.  An exception is
\* caught nowhere and ends the program.
Pretraitement ==
  /\ pc = "pretraitement"
  /\ IF ErreurPretraitement(donnees)
     THEN /\ pc' = "erreur"
          /\ evenement' = "ValueError"
          /\ UNCHANGED <<signal_mlt3, nbr_ech_bit>>
     ELSE /\ signal_mlt3' = Cale(MiseEnForme(Rogne(donnees)))
          /\ nbr_ech_bit' = NbrEchBit(periode_echantillon)
          /\ IF nbr_ech_bit' = 0
             THEN pc' = "erreur" /\ evenement' = "ZeroDivisionError"
             ELSE pc' = "mlt3" /\ evenement' = "signal"
  /\ UNCHANGED <<entree, indice, bits_decodes_mlt3, index, sync, state_init, compteur_trame,
                 i_trame, sorties, locaux_trame, cas, locaux>>

\* The waveforms: every sequence of at most MaxOnde samples of these
\* amplitudes; the sample periods: 500, 250, 200, 125 and 100 MHz.
amplitudes == {-100, 0, 30, 100}
MaxOnde == 5
periodes == {2000, 4000, 5000, 8000, 10000}
CasOnde == [genre |-> "onde", segments |-> <<>>, graine |-> 0, n |-> 0]

\* The program at the call of pretraitement_signal_mlt3 (line 385); the
\* empty signal and 0 stand for names not assigned yet.
InitPretraitement ==
  /\ cas = CasOnde
  /\ \E j \in 0..MaxOnde : donnees \in [1..j -> amplitudes]
  /\ periode_echantillon \in periodes
  /\ signal_mlt3 = <<>>
  /\ nbr_ech_bit = 0
  /\ indice = 0
  /\ bits_decodes_mlt3 = ""
  /\ index = 0
  /\ sync = FALSE
  /\ state_init = None
  /\ compteur_trame = 1
  /\ lfsr = None
  /\ LocauxInitiaux
  /\ i_trame = 0
  /\ sorties = <<>>
  /\ trame = <<>>
  /\ trame_echangee = <<>>
  /\ hex_trame = <<>>
  /\ evenement = "aucun"
  /\ pc = "pretraitement"

SpecPretraitement == InitPretraitement /\ [][Pretraitement]_vars

\* Line 432 alone: echange_paquet applied to trame.
Echange ==
  /\ pc = "echange"
  /\ trame_echangee' = echange_paquet(trame)
  /\ pc' = "echangee"
  /\ evenement' = "echange"
  /\ UNCHANGED <<entree, signal_mlt3, nbr_ech_bit, indice, bits_decodes_mlt3, index, sync,
                 state_init, compteur_trame, i_trame, sorties, trame, hex_trame, cas, locaux>>

\* The bitstrings echange_paquet is applied to: every bitstring of these
\* lengths.
LongueursEchange == {0, 8, 16}
CasFonction == [genre |-> "fonction", segments |-> <<>>, graine |-> 0, n |-> 1]

InitEchange ==
  /\ cas = CasFonction
  /\ EntreeOmise(1)
  /\ signal_mlt3 = <<>>
  /\ nbr_ech_bit = 1
  /\ indice = 0
  /\ bits_decodes_mlt3 = ""
  /\ index = 0
  /\ sync = FALSE
  /\ state_init = None
  /\ compteur_trame = 1
  /\ lfsr = None
  /\ LocauxInitiaux
  /\ i_trame = 0
  /\ sorties = <<>>
  /\ \E l \in LongueursEchange : trame \in [1..l -> {0, 1}]
  /\ trame_echangee = <<>>
  /\ hex_trame = <<>>
  /\ evenement = "aucun"
  /\ pc = "echange"

SpecEchange == InitEchange /\ [][Echange]_vars

\* decode_mlt3 alone (lines 131-164).
NextDecodeMlt3 == DecodeMlt3Bit \/ RetourMlt3

\* The signals decode_mlt3 is run on: the signal of the reference encoder for
\* every bit sequence of at most MaxBitsCode bits, every ternary signal of at
\* most MaxSignal samples, and the signals of at most MaxPeriodique samples
\* that repeat a motif of at most MaxMotif samples; 1 to MaxPas samples per
\* symbol.
MaxBitsCode == 6
MaxSignal == 6
MaxPeriodique == 12
MaxMotif == 3
MaxPas == 3
niveaux == {-1, 0, 1}
SuitesDe(ensemble, k) == UNION {[1..j -> ensemble] : j \in 0..k}
Periodique(motif, longueur) == [j \in 1..longueur |-> motif[((j - 1) % Len(motif)) + 1]]
Periodiques ==
  {Periodique(m, l) : m \in SuitesDe(niveaux, MaxMotif) \ {<<>>},
                      l \in (MaxSignal + 1)..MaxPeriodique}

CasCode(b, n) == [genre |-> "code", segments |-> <<<<"bits", b>>>>, graine |-> 0, n |-> n]
CasSignal(n) == [genre |-> "signal", segments |-> <<>>, graine |-> 0, n |-> n]

\* The program at the call of decode_mlt3 (line 394) on the signal signal at
\* n samples per symbol.
InitDecode(c, signal) ==
  /\ cas = c
  /\ EntreeOmise(c.n)
  /\ signal_mlt3 = signal
  /\ nbr_ech_bit = c.n
  /\ indice = 0
  /\ bits_decodes_mlt3 = ""
  /\ PrincipalInitial
  /\ pc = "mlt3"

InitDecodeMlt3 ==
  \/ \E b \in SuitesDe({0, 1}, MaxBitsCode), n \in 1..MaxPas :
        InitDecode(CasCode(b, n), EncodeMlt3(b, n))
  \/ \E signal \in SuitesDe(niveaux, MaxSignal) \cup Periodiques, n \in 1..MaxPas :
        InitDecode(CasSignal(n), signal)

SpecDecodeMlt3 == InitDecodeMlt3 /\ [][NextDecodeMlt3]_vars

(***************************************************************************)
(* Properties of one call of descramble (SpecPasse).                       *)
(***************************************************************************)
CommenceParDebut(une_trame) ==
  Len(une_trame) >= Len(marqueur_debut) /\ OccurrenceEn(une_trame, marqueur_debut, 0)

FinitParFin(une_trame) ==
  Len(une_trame) >= Len(marqueur_fin)
  /\ OccurrenceEn(une_trame, marqueur_fin, Len(une_trame) - Len(marqueur_fin))

\* C1: on IDLE, one well-formed frame whose payload is data code groups, IDLE,
\* a pass with the right seed never sets sync to false, and it returns exactly
\* one frame, which starts with the start marker and ends with the end marker.
C1_UneTrameSyncGardee ==
  cas.genre = "trame" =>
    /\ sync
    /\ pc = "trames" =>
         /\ Len(trames_descramblees) = 1
         /\ CommenceParDebut(trames_descramblees[1])
         /\ FinitParFin(trames_descramblees[1])

\* C17: a frame whose payload is data code groups is closed at its own T R
\* IDLE only: the frame emitted is the start marker, every group of the
\* payload and the end marker, the end marker being matched nowhere before.
C17_FinAuDelimiteurSeul ==
  (cas.genre = "trame" /\ Len(trames_descramblees) >= 1) =>
     trames_descramblees[1] = marqueur_debut \o Code(cas.segments[3][2]) \o marqueur_fin

\* C18: in a frame, at the first bit after which trame_courante holds the end
\* marker, the frame emitted is trame_courante up to its first end marker,
\* the marker included; the bits after the marker are the new tampon,
\* trame_courante is emptied, the timeout counter is 0 and the frame is left.
\* A frame entered emits at most one frame.
C18_FinAuPremierMarqueur ==
  /\ [](dans_une_trame => ~Contient(trame_courante, marqueur_fin))
  /\ [][(pc = "descramble" /\ dans_une_trame
         /\ Contient(Append(trame_courante, bit_descramble'), marqueur_fin)) =>
           /\ trames_descramblees' =
                Append(trames_descramblees,
                       AvantPremier(Append(trame_courante, bit_descramble'), marqueur_fin)
                         \o marqueur_fin)
           /\ tampon' = ApresPremier(Append(trame_courante, bit_descramble'), marqueur_fin)
           /\ trame_courante' = <<>>
           /\ compteur_timeout' = 0
           /\ ~dans_une_trame']_vars
  /\ [][trames_descramblees' # trames_descramblees =>
           /\ dans_une_trame /\ ~dans_une_trame'
           /\ Len(trames_descramblees') = Len(trames_descramblees) + 1]_vars

\* C19: when a frame start is detected, trame_courante (and tampon) is the
\* buffer from the start marker that the confirmation groups follow, what
\* comes before it dropped; the offset of the bit is recorded as the start
\* index of the frame and the timeout counter is 0.
C19_TrameDepuisDebutConfirme ==
  evenement = "debut" =>
    /\ dans_une_trame
    /\ Len(trame_courante) >= Len(marqueur_debut \o suite_debut)
    /\ OccurrenceEn(trame_courante, marqueur_debut \o suite_debut, 0)
    /\ tampon = trame_courante
    /\ index_trames[Len(index_trames)] = index + nbr_bits_traites
    /\ compteur_timeout = 0

\* C20: while no frame is entered, the buffer is cut exactly when it holds 21
\* consecutive '1': it becomes 10 '1' and what followed the first such run;
\* a buffer without 21 consecutive '1' is left as it is.
C20_NettoyageA21 ==
  [][(nbr_bits_traites' = nbr_bits_traites + 1 /\ ~dans_une_trame /\ ~dans_une_trame') =>
       tampon' =
         IF Contient(ChaineCourante(tampon, bit_descramble'), Append(idle, 1))
         THEN dix_uns \o ApresPremier(ChaineCourante(tampon, bit_descramble'), Append(idle, 1))
         ELSE ChaineCourante(tampon, bit_descramble')]_vars

\* C22: every frame emitted is a stretch of the descrambled bits of its pass,
\* from the first bit of a start marker to the last bit of an end marker: when
\* it is emitted, the frame and the buffer left after it are the last bits
\* descrambled, in order, none dropped, repeated or added.
C22_TrameContigue ==
  /\ \A k \in 1..Len(trames_descramblees) :
       /\ CommenceParDebut(trames_descramblees[k])
       /\ FinitParFin(trames_descramblees[k])
       /\ Contient(SubSeq(Clair(cas), 1, nbr_bits_traites), trames_descramblees[k])
  /\ evenement = "fin" =>
       trames_descramblees[Len(trames_descramblees)] \o tampon =
         SubSeq(Clair(cas),
                nbr_bits_traites - Len(trames_descramblees[Len(trames_descramblees)])
                  - Len(tampon) + 1,
                nbr_bits_traites)

\* A frame longer than the buffer, emitted in a pass whose buffer the
\* clean-up cut before the frame.
C22_Temoin ==
  /\ evenement = "fin" /\ cas.genre = "trame"
  /\ Len(trames_descramblees) = 1
  /\ cas.segments[1][2] > Len(idle)
  /\ Len(trames_descramblees[1]) > taille_tampon
  /\ Len(trames_descramblees[1]) < nbr_bits_traites

\* C27: the register after a bit is the one the same step gives on the bit 0,
\* and the feedback bit (the descrambled bit added to the received one) is
\* the sum of the taps of the register before: they depend on the seed and
\* on the number of steps, not on the bits descrambled; the register always
\* holds 11 bits.  The same for descramble_etat_initial: on a stream and on
\* the '0' bits of the same length it leaves the same register.
C27_RegistreSansDonnees ==
  /\ [][nbr_bits_traites' = nbr_bits_traites + 1 =>
           /\ lfsr' = EtapeDescramble(lfsr, 0).lfsr
           /\ Xor(bit_descramble', BitEn(bits_decodes_mlt3, index + nbr_bits_traites))
                = Xor(lfsr[9], lfsr[11])
           /\ Len(lfsr') = nbr_bits]_vars
  /\ []((pc = "descramble" /\ nbr_bits_traites = 0 /\ cas.genre = "libre") =>
          /\ Len(lfsr) = nbr_bits
          /\ BoucleEtatInitial(Bits(bits_decodes_mlt3), 1, Len(bits_decodes_mlt3), lfsr).lfsr
               = BoucleEtatInitial(Zeros(Len(bits_decodes_mlt3)), 1, Len(bits_decodes_mlt3),
                                   lfsr).lfsr
          /\ Len(BoucleEtatInitial(Bits(bits_decodes_mlt3), 1, Len(bits_decodes_mlt3),
                                   lfsr).lfsr) = nbr_bits)

\* A stream that holds '0' and '1' bits, descrambled to its end.
C27_Temoin ==
  /\ pc = "trames" /\ cas.genre = "libre"
  /\ nbr_bits_traites = Len(bits_decodes_mlt3)
  /\ Contient(Bits(bits_decodes_mlt3), <<0, 1>>)
  /\ lfsr # EtatInitial(cas.graine)

\* In a case "bruit" (avant >= 20 bits of IDLE, milieu bits '0', IDLE): the
\* last bit of the leading IDLE at which the buffer held the IDLE pattern, and
\* the bit at which it holds it again.
DernierIdle(c) == c.segments[1][2] - ((c.segments[1][2] - Len(idle)) % Len(dix_uns))
RetourIdle(c) == c.segments[1][2] + c.segments[2][2] + Len(idle)

\* C4: while searching, descramble has not returned and sync is unchanged
\* after up to 100 consecutive bits without any pattern in the buffer; at the
\* 101st it returns at that bit with sync false and the count of the bits
\* processed so far, and it processes no later bit.
C4_PerteAuCentUnieme ==
  /\ pc = "descramble" => sync /\ bits_sans_motif <= 100
  /\ ~sync => pc = "trames" /\ evenement = "perte"
  /\ evenement = "perte" =>
       /\ ~sync /\ bits_sans_motif = 101 /\ ~dans_une_trame
       /\ pc = "trames"
  /\ cas.genre = "bruit" /\ pc = "trames" =>
       IF DernierIdle(cas) + 101 < RetourIdle(cas)
       THEN ~sync /\ nbr_bits_traites = DernierIdle(cas) + 101
       ELSE sync /\ nbr_bits_traites = Len(bits_decodes_mlt3)

\* A pass stopped by the 101st bit without pattern, bits left unprocessed.
C4_Temoin ==
  /\ evenement = "perte" /\ bits_sans_motif = 101 /\ ~sync
  /\ nbr_bits_traites < Len(bits_decodes_mlt3)

\* C8: the per-bit transform applied twice with the same seed gives back the
\* bitstring it started from (descramble_etat_initial, on the streams of the
\* length the finder is handed), and descrambling a stream scrambled with the
\* same seed gives the plain stream, bit by bit (descramble, on every stream).
C8_AllerRetour ==
  /\ (pc = "descramble" /\ nbr_bits_traites = 0 /\ cas.genre = "libre") =>
       /\ descramble_etat_initial(descramble_etat_initial(Clair(cas), EtatInitial(cas.graine)),
                                  EtatInitial(cas.graine)) = Clair(cas)
       /\ descramble_etat_initial(Bits(bits_decodes_mlt3), EtatInitial(cas.graine)) = Clair(cas)
  /\ (pc \in {"descramble", "trames"} /\ nbr_bits_traites >= 1) =>
       bit_descramble = Clair(cas)[nbr_bits_traites]

\* A stream that scrambling changed, descrambled to its end.
C8_Temoin ==
  /\ pc = "trames" /\ cas.genre = "libre"
  /\ nbr_bits_traites = Len(bits_decodes_mlt3)
  /\ bits_decodes_mlt3 # Caracteres(Clair(cas))
  /\ sync

(***************************************************************************)
(* Properties of the main loop (Spec, SpecComplete).                        *)
(***************************************************************************)
\* The program is over: the loop test of line 413 failed, or an exception
\* ended it.
Termine == pc \in {"fin", "erreur"}

\* What is left to do at most: the bits the outer loop has not passed yet
\* (it stops at the latest saut_sans_etat bits past the end), then the steps
\* of the iteration in progress.
PasRestants ==
  CASE pc = "boucle" -> 2 * Len(bits_decodes_mlt3) + 3
    [] pc = "descramble" -> Len(bits_decodes_mlt3) - index - nbr_bits_traites + 2
                            + Len(bits_decodes_mlt3) \div Len(marqueur_fin)
    [] pc = "trames" -> Len(trames_descramblees) - i_trame + 1
    [] OTHER -> 0

Mesure ==
  (Len(bits_decodes_mlt3) + saut_sans_etat - index) * (2 * Len(bits_decodes_mlt3) + 4)
  + PasRestants

\* The guard of one of the actions holds: the loop test of line 413 has
\* passed, or descramble is in its for loop or at its end, or the frame loop
\* is at a frame or at its end.
PeutContinuer ==
  \/ pc = "boucle" /\ index < Len(bits_decodes_mlt3)
  \/ pc = "descramble" /\ nbr_bits_traites <= Len(bits_decodes_mlt3) - index
  \/ pc = "trames" /\ i_trame <= Len(trames_descramblees)

\* C24: the buffer never holds more than 200 bits, whatever the step that
\* wrote it last (the append and discard, the clean-up, a frame start, a
\* frame end, a timeout).
C24_TamponBorne == Len(tampon) <= taille_tampon

\* The buffer full, inside a frame that has grown past the size of the
\* buffer since the pass entered it.
C24_Temoin ==
  /\ cas.genre = "trame" /\ evenement = "bit"
  /\ Len(tampon) = taille_tampon
  /\ dans_une_trame /\ Len(trame_courante) > taille_tampon

\* C28: a pass that has a seed returns before the end of its input on the
\* loss of synchronisation only, after 101 bits at least; so the count an
\* iteration of the outer loop advances by is 10 (no seed), 101 or more (sync
\* lost) or the number of the bits that were left; the bit at which a frame
\* times out does not end the pass.
C28_BitsParIteration ==
  /\ [](pc = "trames" =>
          \/ state_init = None /\ ~sync /\ nbr_bits_traites = 10
          \/ /\ state_init # None /\ ~sync
             /\ nbr_bits_traites >= 101
             /\ nbr_bits_traites <= Len(bits_decodes_mlt3) - index
          \/ state_init # None /\ sync /\ nbr_bits_traites = Len(bits_decodes_mlt3) - index)
  /\ [][(pc = "descramble" /\ pc' = "trames"
         /\ nbr_bits_traites' < Len(bits_decodes_mlt3) - index) =>
           evenement' = "perte" /\ ~sync' /\ bits_sans_motif' = 101]_vars
  /\ [][(dans_une_trame /\ ~dans_une_trame' /\ nbr_bits_traites' = nbr_bits_traites + 1) =>
           pc' = "descramble"]_vars

\* A pass left on the loss of synchronisation before the end of the stream.
C28_Temoin ==
  /\ pc = "trames" /\ evenement = "perte" /\ ~sync
  /\ nbr_bits_traites >= 101
  /\ nbr_bits_traites < Len(bits_decodes_mlt3) - index

\* C29: in a pass there are at least as many start indexes recorded as
\* frames emitted, so the frame loop never reads index_trames[i] out of
\* range.
C29_IndexPourChaqueTrame ==
  /\ Len(index_trames) >= Len(trames_descramblees)
  /\ (pc = "trames" /\ i_trame < Len(trames_descramblees)) => i_trame < Len(index_trames)
  /\ evenement # "IndexError"

\* The second frame of a pass printed with its index.
C29_Temoin ==
  /\ pc = "trames" /\ evenement = "affichee"
  /\ Len(trames_descramblees) = 2 /\ i_trame = 2
  /\ Len(index_trames) = 2

\* C30: in a pass, inside a frame the desync counter is 0; outside a frame
\* the timeout counter is 0 and the accumulator is empty.
C30_CompteursSelonEtat ==
  pc \in {"descramble", "trames"} =>
    /\ dans_une_trame => compteur_desynchro = 0
    /\ ~dans_une_trame => compteur_timeout = 0 /\ trame_courante = <<>>

\* The bit at which a frame timed out: outside the frame, the desync counter
\* already counting.
C30_Temoin ==
  /\ evenement = "timeout" /\ pc = "descramble"
  /\ ~dans_une_trame /\ compteur_timeout = 0 /\ trame_courante = <<>>
  /\ compteur_desynchro = 1

\* C2: every iteration of the outer loop moves the global bit offset by the
\* count descramble returned, which is at least 1, and 10 when no seed was
\* found; the loop terminates: a measure that is never negative decreases at
\* every step, and the program stops only when it is over.
C2_BoucleTermine ==
  /\ [][(pc = "trames" /\ pc' \in {"boucle", "fin"}) =>
          /\ index' = index + nbr_bits_traites
          /\ index' >= index + 1
          /\ (state_init = None => nbr_bits_traites = 10)]_vars
  /\ [][Mesure' < Mesure /\ Mesure' >= 0]_vars
  /\ [](Termine \/ PeutContinuer)

\* The loop is over after a pass that dropped a frame on timeout and printed
\* the next one, a pass that lost the synchronisation, and a search without
\* seed.
C2_Temoin ==
  /\ pc = "fin" /\ cas.genre = "longue" /\ Len(sorties) = 1
  /\ ~sync /\ state_init = None
  /\ index > Len(bits_decodes_mlt3)

\* C6: decoding a frame never raises an error, whatever groups its payload
\* holds: the program is never ended by an exception.
C6_JamaisErreur == pc # "erreur"

\* The frame has the start marker and, at or after it, the end marker.
MarqueursPresents(frame) ==
  /\ Contient(frame, marqueur_debut)
  /\ TrouveDepuis(frame, marqueur_fin, Trouve(frame, marqueur_debut)) # -1

\* C26: a frame is printed only if it has the start marker and, at or after
\* it, the end marker, and the hexadecimal text of what was decoded between
\* them has at least 42 characters, 2 for every 8 bits decoded; every other
\* frame is dropped and nothing else happens.
C26_TrameAfficheeOuIgnoree ==
  /\ [][sorties' # sorties =>
           /\ pc = "trames" /\ pc' = "trames"
           /\ sorties' = Append(sorties, sorties'[Len(sorties')])
           /\ MarqueursPresents(trames_descramblees[i_trame + 1])
           /\ sorties'[Len(sorties')][1] = hex_trame'
           /\ hex_trame' = binaire_vers_hexa(trame_echangee')
           /\ trame_echangee' =
                TrameEchangee(Trame5b(trames_descramblees[i_trame + 1]))
           /\ Len(hex_trame') >= 42
           /\ Len(hex_trame') = 2 * ((Len(trame_echangee') + 7) \div 8)]_vars
  /\ [][(pc = "trames" /\ i_trame < Len(trames_descramblees) /\ sorties' = sorties) =>
           /\ evenement' = "ignoree"
           /\ pc' = "trames"
           /\ i_trame' = i_trame + 1]_vars

\* s holds a run of n '1'.
SuiteDeUns(s, n) == \E p \in 0..(Len(s) - n) : \A j \in 1..n : s[p + j] = 1

\* The prefix the seed search of this pass was handed.
Prefixe == Bits(TrancheTexte(bits_decodes_mlt3, index, index + 50))

\* The state is the one a seed search has just left.
ApresRecherche ==
  \/ evenement = "etat_trouve" /\ pc = "descramble" /\ nbr_bits_traites = 0
  \/ evenement = "sans_etat" /\ pc = "trames"

\* The candidates that descramble the prefix to at least 40 consecutive '1'.
Qualifies(prefixe) ==
  {i \in 0..2047 : SuiteDeUns(descramble_etat_initial(prefixe, EtatInitial(i)), 40)}

\* C9: on 50 IDLE bits scrambled from the register content s, the test of the
\* seed search passes for s and for no other of the 2048 candidates, and the
\* search returns s.
C9_GraineRetrouvee ==
  (ApresRecherche /\ index = 0 /\ cas.segments[1] = <<"uns", 50>>) =>
     /\ state_init = EtatInitial(cas.graine)
     /\ sync
     /\ \E q \in {Qualifies(Prefixe)} : q = {cas.graine}

C9_Temoin ==
  /\ ApresRecherche /\ index = 0 /\ cas.segments[1] = <<"uns", 50>>
  /\ Len(bits_decodes_mlt3) = 50
  /\ state_init = EtatInitial(cas.graine)
  /\ cas.graine > 1024

\* The least element of a set of numbers.
Minimum(ensemble) == CHOOSE i \in ensemble : \A j \in ensemble : i <= j

\* C10: the seed search returns (seed, true) for the first candidate, in
\* ascending order, whose descrambling of the prefix holds at least 40
\* consecutive '1', and (no seed, false) when no candidate does, as for every
\* prefix shorter than 40 bits.
C10_PremierCandidat ==
  ApresRecherche =>
    \E q \in {Qualifies(Prefixe)} :
       /\ q # {} => /\ evenement = "etat_trouve" /\ sync
                    /\ state_init = EtatInitial(Minimum(q))
       /\ q = {} => evenement = "sans_etat" /\ ~sync /\ state_init = None
       /\ Len(Prefixe) < 40 => q = {} /\ evenement = "sans_etat"

\* A search on the last bits of a stream, fewer than 40, found no seed.
C10_Temoin ==
  /\ evenement = "sans_etat" /\ pc = "trames" /\ ~sync /\ state_init = None
  /\ index > 0 /\ Len(Prefixe) < 40 /\ Len(Prefixe) > 0

\* C31: from the same seed and on the same bits descramble_etat_initial and
\* the loop of descramble give the same descrambled bits (and leave the same
\* register), and the seed they were given is not changed; so the first 50
\* bits a pass descrambles after a seed search hold the 40 consecutive '1'
\* the search saw.
C31_MemesBitsQueLaRecherche ==
  /\ [][(pc = "descramble" /\ nbr_bits_traites' = nbr_bits_traites + 1) =>
           /\ state_init' = state_init
           /\ bit_descramble' =
                descramble_etat_initial(
                  Bits(TrancheTexte(bits_decodes_mlt3, index, index + nbr_bits_traites + 1)),
                  state_init)[nbr_bits_traites + 1]
           /\ lfsr' =
                BoucleEtatInitial(
                  Bits(TrancheTexte(bits_decodes_mlt3, index, index + nbr_bits_traites + 1)),
                  1, nbr_bits_traites + 1, state_init).lfsr]_vars
  /\ []((pc = "descramble" /\ nbr_bits_traites = Len(Prefixe)) =>
          /\ state_init # None
          /\ SuiteDeUns(descramble_etat_initial(Prefixe, state_init), 40)
          /\ lfsr = BoucleEtatInitial(Prefixe, 1, Len(Prefixe), state_init).lfsr)

\* A pass that has descrambled the 50 bits its seed was found on, after an
\* earlier pass lost the synchronisation.
C31_Temoin ==
  /\ pc = "descramble" /\ nbr_bits_traites = 50 /\ index > 0
  /\ state_init # None /\ lfsr # state_init
  /\ bit_descramble = 1

\* C11: without a seed descramble descrambles nothing: it returns no frame,
\* no frame start offset, sync false and the count it was given plus 10 (the
\* register, the buffer and the accumulator are as at its entry); the main
\* loop then moves on by 10 bits and, when bits are left, searches a seed
\* again.
C11_SansEtatSaute10 ==
  /\ [](evenement = "sans_etat" =>
          /\ pc = "trames" /\ state_init = None
          /\ trames_descramblees = <<>> /\ index_trames = <<>>
          /\ ~sync /\ nbr_bits_traites = 0 + 10
          /\ lfsr = None /\ tampon = <<>> /\ trame_courante = <<>> /\ ~dans_une_trame)
  /\ [][evenement = "sans_etat" =>
          /\ evenement' = "avance" /\ index' = index + 10 /\ ~sync'
          /\ sorties' = sorties]_vars
  /\ [][(evenement = "avance" /\ ~sync /\ pc = "boucle") =>
          evenement' \in {"sans_etat", "etat_trouve"}]_vars

\* A seed search over 50 bits has failed a second time, 10 bits after the
\* first.
C11_Temoin ==
  /\ evenement = "sans_etat" /\ pc = "trames" /\ index = 10
  /\ Len(Prefixe) = 50 /\ nbr_bits_traites = 10

\* C23: an iteration of the outer loop that follows a pass ended with sync
\* false searches the seed on the 50 bits (or fewer, at the end) at the new
\* index, and the pass starts from it with an empty buffer, an empty
\* accumulator, no frame and the counters at 0; every pass after the first
\* follows such a search, and the seed and the index stay the same for the
\* whole pass: no pass descrambles with a seed found at another index.
C23_RechercheACetIndex ==
  /\ []((pc = "descramble" /\ nbr_bits_traites = 0) =>
          /\ evenement = "etat_trouve"
          /\ <<state_init, sync>> = trouve_etat_init(Prefixe)
          /\ lfsr = state_init
          /\ tampon = <<>> /\ trame_courante = <<>> /\ ~dans_une_trame
          /\ trames_descramblees = <<>> /\ index_trames = <<>>
          /\ compteur_desynchro = 0 /\ compteur_timeout = 0)
  /\ []((pc = "boucle" /\ index < Len(bits_decodes_mlt3)) => ~sync)
  /\ [][(pc = "descramble" /\ pc' = "descramble") =>
           state_init' = state_init /\ index' = index]_vars

\* A pass that starts after a frame was printed and the synchronisation
\* lost, from the seed found at its index.
C23_Temoin ==
  /\ pc = "descramble" /\ nbr_bits_traites = 0 /\ index > 0
  /\ Len(sorties) >= 1
  /\ state_init # None /\ sync

\* C21: the synchronisation is followed outside a frame only: a bit after
\* which dans_une_trame is true neither changes the desync counter nor ends
\* the pass; a pass that ends on the loss of synchronisation returns the
\* frames emitted so far, the count of the bits processed, the start indexes
\* recorded and sync false; and descramble returns sync false on the loss of
\* synchronisation and without a seed only.
C21_SuiviHorsTrame ==
  /\ [][(nbr_bits_traites' = nbr_bits_traites + 1 /\ dans_une_trame') =>
           /\ compteur_desynchro' = compteur_desynchro
           /\ sync' = sync
           /\ pc' = "descramble"]_vars
  /\ [][(pc = "descramble" /\ pc' = "trames" /\ ~sync') =>
           /\ evenement' = "perte"
           /\ ~dans_une_trame'
           /\ compteur_desynchro = seuil_perte_synchro
           /\ trames_descramblees' = trames_descramblees
           /\ index_trames' = index_trames
           /\ nbr_bits_traites' = nbr_bits_traites + 1]_vars
  /\ [][(pc = "boucle" /\ pc' = "trames" /\ ~sync') =>
           evenement' = "sans_etat" /\ state_init' = None]_vars
  /\ [](evenement = "perte" => pc = "trames" /\ ~sync)

\* A pass that emitted a frame and then lost the synchronisation.
C21_Temoin ==
  /\ evenement = "perte" /\ pc = "trames" /\ ~sync
  /\ Len(trames_descramblees) = 1 /\ Len(index_trames) = 1
  /\ nbr_bits_traites < Len(bits_decodes_mlt3) - index

(***************************************************************************)
(* Properties of pretraitement_signal_mlt3 (SpecPretraitement).            *)
(***************************************************************************)
\* C15: when no sample is left after the leading samples are dropped, or
\* when the ternary signal has no transition, the preprocessing ends with an
\* error and gives no signal: decode_mlt3 is not called.
C15_ErreurSansSignal ==
  (cas.genre = "onde" /\ pc # "pretraitement"
   /\ (Rogne(donnees) = <<>> \/ Transitions(MiseEnForme(Rogne(donnees))) = {}))
    => (pc = "erreur" /\ signal_mlt3 = <<>>)

\* C16: the number of samples per symbol handed to decode_mlt3 is
\* 1 / (periode_echantillon * 125e6) rounded to the nearest whole number, and
\* it is at least 1.
C16_NbrEchBitArrondi ==
  (cas.genre = "onde" /\ pc = "mlt3") =>
     /\ nbr_ech_bit = NbrEchBitArrondi(periode_echantillon)
     /\ nbr_ech_bit >= 1

(***************************************************************************)
(* Properties of echange_paquet (SpecEchange).                             *)
(***************************************************************************)
\* C14: on a bitstring whose length is a multiple of 8, echange_paquet
\* swaps the first 4 bits and the last 4 bits of every group of 8 (00001111
\* becomes 11110000) and changes nothing else; applied twice it gives the
\* bitstring back.
C14_EchangeInvolutif ==
  (pc = "echangee" /\ Len(trame) % 8 = 0) =>
     /\ Len(trame_echangee) = Len(trame)
     /\ \A g \in 0..(Len(trame) \div 8 - 1) : \A j \in 1..4 :
           /\ trame_echangee[8 * g + j] = trame[8 * g + 4 + j]
           /\ trame_echangee[8 * g + 4 + j] = trame[8 * g + j]
     /\ echange_paquet(trame_echangee) = trame
     /\ trame = <<0,0,0,0,1,1,1,1>> => trame_echangee = <<1,1,1,1,0,0,0,0>>

\* Two groups of 8 bits swapped, each on its own.
C14_Temoin ==
  /\ pc = "echangee"
  /\ trame = <<0,0,0,0,1,1,1,1, 0,1,1,0,0,0,0,1>>
  /\ trame_echangee = <<1,1,1,1,0,0,0,0, 0,0,0,1,0,1,1,0>>

(***************************************************************************)
(* Properties of decode_mlt3 (SpecDecodeMlt3).                             *)
(***************************************************************************)
\* C12: decode_mlt3 gives back exactly the bits the reference encoder was
\* given, for every bit sequence and every number of samples per symbol: none
\* is lost at the start or at the end, none is inserted.
C12_Mlt3AllerRetour ==
  (cas.genre = "code" /\ pc # "mlt3") =>
     bits_decodes_mlt3 = Caracteres(cas.segments[1][2])

\* C25: for every ternary signal and every N >= 1 decode_mlt3 ends and reads
\* no sample outside the signal: an iteration reads the samples i + N/2 and
\* i + N + N/2, emits '1' exactly when they differ, moves the index by N after
\* a '0' and by 1 at least after a '1'; and the loop stops when i + 2N exceeds
\* the length of the signal, not before.
C25_Mlt3Termine ==
  /\ [][(pc = "mlt3" /\ pc' = "mlt3") =>
           /\ indice + nbr_ech_bit + nbr_ech_bit \div 2 < Len(signal_mlt3)
           /\ Len(bits_decodes_mlt3') = Len(bits_decodes_mlt3) + 1
           /\ (BitEn(bits_decodes_mlt3', Len(bits_decodes_mlt3)) = 1) <=>
                (signal_mlt3[indice + nbr_ech_bit \div 2 + 1]
                   # signal_mlt3[indice + nbr_ech_bit + nbr_ech_bit \div 2 + 1])
           /\ (BitEn(bits_decodes_mlt3', Len(bits_decodes_mlt3)) = 0) =>
                indice' = indice + nbr_ech_bit
           /\ indice' >= indice + 1]_vars
  /\ [][(pc = "mlt3" /\ pc' # "mlt3") =>
           indice + 2 * nbr_ech_bit > Len(signal_mlt3)]_vars
  /\ []((pc = "mlt3" /\ indice + 2 * nbr_ech_bit > Len(signal_mlt3)) =>
          ~ResteDesSymboles(indice, nbr_ech_bit, Len(signal_mlt3)))

\* C13: decode_mlt3 emits at most floor(len(signal) / N) bits, whatever the
\* ternary signal and N.
C13_AuPlusUnBitParSymbole ==
  Len(bits_decodes_mlt3) <= Len(signal_mlt3) \div nbr_ech_bit

(***************************************************************************)
(* Properties of the whole chain (SpecMlt3).                               *)
(***************************************************************************)
\* The hexadecimal text of octets: two digits each, the high one first.
RECURSIVE HexaEntre(_, _, _)
HexaEntre(octets, lo, hi) ==
  IF lo > hi THEN <<>>
  ELSE IF lo = hi THEN <<octets[lo] \div 16, octets[lo] % 16>>
  ELSE HexaEntre(octets, lo, (lo + hi) \div 2) \o HexaEntre(octets, (lo + hi) \div 2 + 1, hi)

Hexa(octets) == HexaEntre(octets, 1, Len(octets))

\* C7: an Ethernet frame (destination, source, EtherType 0x0800, payload)
\* encoded in 4B5B between IDLE and its delimiters, scrambled and encoded in
\* MLT-3 comes out of the program as exactly one frame, whose hexadecimal
\* text is the one of its octets and is at least 42 characters long.
C7_AllerRetourComplet ==
  (cas.genre = "ethernet" /\ pc = "fin") =>
     /\ Len(sorties) = 1
     /\ sorties[1][1] = Hexa(cas.segments[3][2])
     /\ Len(sorties[1][1]) >= longueur_hex_min

(***************************************************************************)
(* Properties of the frames as long as the timeout (SpecLongue).           *)
(***************************************************************************)
\* C3: the offset printed with a frame is the start index recorded when that
\* same frame began.
C3_IndexDeLaTrame ==
  [][Len(sorties') > Len(sorties) =>
       sorties'[Len(sorties')][2] = index_emis[i_trame + 1]]_vars

\* The end marker is complete at the bit just appended to the frame.
FinComplete(une_trame) ==
  Len(une_trame) >= Len(marqueur_fin)
  /\ SubSeq(une_trame, Len(une_trame) - Len(marqueur_fin) + 1, Len(une_trame)) = marqueur_fin

\* C5: a frame is dropped at the 30000th bit processed in it when the end
\* marker is not complete at that bit: no frame is emitted, the accumulator
\* and the buffer are emptied, the timeout counter is 0 and the framer
\* searches again; before that bit the frame goes on accumulating; when the
\* end marker completes on or before that bit the frame is emitted.
C5_TimeoutA30000 ==
  /\ [][(pc = "descramble" /\ dans_une_trame /\ nbr_bits_traites' = nbr_bits_traites + 1) =>
          /\ bits_en_trame' = bits_en_trame + 1
          /\ bits_en_trame' <= 30000
          /\ IF FinComplete(Append(trame_courante, bit_descramble'))
             THEN /\ evenement' = "fin"
                  /\ Len(trames_descramblees') = Len(trames_descramblees) + 1
                  /\ ~dans_une_trame'
             ELSE IF bits_en_trame' = 30000
             THEN /\ evenement' = "timeout"
                  /\ trames_descramblees' = trames_descramblees
                  /\ trame_courante' = <<>> /\ tampon' = <<>>
                  /\ compteur_timeout' = 0 /\ ~dans_une_trame'
             ELSE /\ evenement' = "bit"
                  /\ dans_une_trame'
                  /\ trame_courante' = Append(trame_courante, bit_descramble')
                  /\ trames_descramblees' = trames_descramblees]_vars
  /\ [](evenement = "bout" /\ cas.genre = "longue" /\ cas.rang = 0 =>
          Len(trames_descramblees) = 1 /\ Len(index_trames) = 1 /\ bits_en_trame = 30000)

\* A frame dropped at its 30000th bit, and the pass goes on.
C5_Temoin ==
  /\ evenement = "timeout" /\ bits_en_trame = 30000
  /\ pc = "descramble" /\ sync /\ ~dans_une_trame
  /\ trames_descramblees = <<>> /\ Len(index_trames) = 1
  /\ nbr_bits_traites < Len(bits_decodes_mlt3)

=============================================================================
